---- MODULE Spec2Model ----
(***************************************************************************)
(* Gameplay core of bevy-jam-6: level progression (particle counting,      *)
(* completion delay, end of level / end of game, restart), collision       *)
(* classification and particle decomposition.                              *)
(*                                                                         *)
(* One frame is modelled as the Update schedule followed by PostUpdate.    *)
(* Systems that the plugins leave unordered run in any order; commands     *)
(* are queued and applied at the sync points the chains create and at the  *)
(* end of each schedule.  Events are double buffered: an event written in  *)
(* frame k can be read in frames k and k+1.                                *)
(*                                                                         *)
(* A usize is represented by a representative of its residue class         *)
(* modulo 2^64: the representative -1 stands for usize::MAX.               *)
(***************************************************************************)
EXTENDS Integers, Sequences, FiniteSets, TLC

\* ------------------------------------------------------------------ bounds
MaxRestarts == 1
MaxContacts == 1
MaxTotalContacts == 2
MaxClicks == 1
MaxBatch == 3
MaxEvents == 2
MaxDepth == 1

\* ------------------------------------------------------- program constants
EndLevelDuration == 2000
InvincibilityDuration == 500
NumDefaultLevels == 2

\* Frame times (ms) the environment can deliver.
Deltas == {400, 1600}

\* ------------------------------------------------------- level data (input)
\* Particle forest: node ids, each with its list of subparticles and kind.
Subparticles(n) ==
    CASE n = 1 -> <<2, 3>>
      [] n = 4 -> <<5>>
      [] OTHER -> <<>>

IsKillerKind(n) == n = 3

\* levels/default/0.ron, levels/default/1.ron
DefaultLevels ==
    << [roots |-> <<1>>, killerObstacle |-> FALSE],
       [roots |-> <<6, 7>>, killerObstacle |-> FALSE] >>

\* Levels the editor can hand to "play" (LevelData::default() is empty).
EditorLevels ==
    { [roots |-> <<>>, killerObstacle |-> FALSE],
      [roots |-> <<4, 9>>, killerObstacle |-> TRUE] }

EmptyLevelData == [roots |-> <<>>, killerObstacle |-> FALSE]

NoTag == [kind |-> "None", id |-> 0]
DefaultTag(i) == [kind |-> "Default", id |-> i]
CustomTag == [kind |-> "Custom", id |-> 0]

NoTimer == -1

VARIABLES
    screen,          \* State<Screen>
    nextScreen,      \* NextState<Screen>, "none" when unset
    editing,         \* EditorState.editing
    editor,          \* EditorState (level, mode, placement, selected), its
                     \* events and previews, the clipboard text, the asset loaded
    loading,         \* LevelHandles, LevelAssets, the handle SpawnLevel found
    hierarchy,       \* entities of a lookup: ChildOf, RigidBody, the loop's entity
    levels,          \* level instances: gen -> [tag, data, state, count, player,
                     \* can_move, launches]
    particles,       \* particle instances: <<gen, node>> -> [inv, subparticles]
    timers,          \* EndLevelTimer entities: <<gen, serial>> -> elapsed
    spawnedEv,       \* ParticleSpawned events unread by increase_particle_count
    despawnedEv,     \* ParticleDespawned events unread by decrease_particle_count
    endLevelEv,      \* EndLevel events unread by end_level
    endGameEv,       \* EndGame events unread by end_game
    splitQ,          \* ParticleSplitEvent unread by split_particle
    rawP,            \* CollisionEvent unread by particle_collision_handler
    rawK,            \* CollisionEvent unread by killer_collision_handler
    killQ,           \* KillEvent unread by kill
    cmds,            \* queued commands not yet applied
    timeScale,       \* TimeScale resource (automatic value)
    timeOverride,    \* TimeScaleOverride resource, "None" when cleared
    physScale,       \* TimestepMode::Variable.time_scale
    setScaleEv,      \* SetTimeScale events unread by set_time_scale
    setOverrideEv,   \* SetTimeScaleOverride events unread by set_time_scale_override
    removedEv,       \* InvincibleRemoved events of the two buffers (no reader)
    panic,           \* where a system panicked, "none" while the app runs
    wrapped,         \* a usize has wrapped: the build has no overflow checks
    pc,              \* position in the frame
    todo,            \* systems of the Update schedule that have not run yet
    delta,           \* Time::delta of the frame
    space,           \* KeyCode::Space just pressed this frame
    mouse,           \* MouseButton::Right this frame: "pressed", "released", "none";
                     \* "stretch": a StretchInputEvent was written instead
    rightHeld,       \* MouseButton::Right is held down
    clicksLeft,      \* input budget: presses of MouseButton::Right and stretch
                     \* inputs still to come
    restartsLeft,    \* input budget: restarts the player may still ask for
    contactsLeft,    \* input budget: contact events physics may still report
    scope,           \* what physics reports in the sessions checked: contacts
                     \* per step, both orders of a pair, contact-end events
    timersStarted,   \* history: gen -> number of EndLevelTimer spawned
    endLevelEmitted, \* history: gen -> number of EndLevel events written
    hist,            \* history: the last run of split_particle (events handled,
                     \* and what was live / written when it started)
    endHandled,      \* history: what end_level did with EndLevel this frame
    killHist,        \* history: the last run of kill that read a KillEvent
    restartHist,     \* history: the last restart, until its instance has settled
    classLog,        \* history: the contact events the collision handlers
                     \* looked at in this frame, and what each made of them
    dropped          \* history: the contact events this frame's Events::update
                     \* dropped before a handler had read them

vars == << screen, nextScreen, editing, editor, loading, hierarchy, levels,
           particles, timers, spawnedEv, despawnedEv, endLevelEv, endGameEv,
           splitQ, rawP, rawK, killQ, cmds, timeScale, timeOverride, physScale,
           setScaleEv, setOverrideEv, removedEv, panic, wrapped, pc, todo, delta,
           space, mouse, rightHeld, clicksLeft,
           restartsLeft, contactsLeft, scope, timersStarted, endLevelEmitted, hist, endHandled,
           killHist, restartHist, classLog, dropped >>

\* ----------------------------------------------------------------- helpers
Range(s) == {s[i] : i \in DOMAIN s}

Restrict(f, S) == [k \in S |-> f[k]]

NoEvents == [old |-> 0, new |-> 0]
Unread(ev) == ev.old + ev.new
\* Events::update: the older buffer is dropped, the newer one becomes older.
AgeCount(ev) == [old |-> ev.new, new |-> 0]
AgeQueue(q) ==
    LET keep == SelectSeq(q, LAMBDA e : e.age = 0)
    IN  [i \in DOMAIN keep |-> [keep[i] EXCEPT !.age = 1]]

\* What Events::update drops: the events of the older buffer.
Expired(q) == SelectSeq(q, LAMBDA e : e.age = 1)
NoneDropped == [particle |-> <<>>, killer |-> <<>>]

Min(a, b) == IF a < b THEN a ELSE b

\* The world: everything systems and commands read and write.
World ==
    [ screen |-> screen, nextScreen |-> nextScreen, editing |-> editing,
      editor |-> editor, loading |-> loading, hierarchy |-> hierarchy,
      levels |-> levels, particles |-> particles,
      timers |-> timers, spawnedEv |-> spawnedEv, despawnedEv |-> despawnedEv,
      endLevelEv |-> endLevelEv, endGameEv |-> endGameEv, splitQ |-> splitQ,
      rawP |-> rawP, rawK |-> rawK, killQ |-> killQ, cmds |-> cmds,
      timeScale |-> timeScale, timeOverride |-> timeOverride,
      physScale |-> physScale, setScaleEv |-> setScaleEv,
      setOverrideEv |-> setOverrideEv, removedEv |-> removedEv,
      panic |-> panic, wrapped |-> wrapped, timersStarted |-> timersStarted,
      endLevelEmitted |-> endLevelEmitted, hist |-> hist,
      endHandled |-> endHandled, killHist |-> killHist,
      restartHist |-> restartHist,
      classLog |-> classLog, dropped |-> dropped ]

\* The world is computed once and then written back.
SetWorld(W) ==
    \E V \in {W} :
        /\ screen' = V.screen
        /\ nextScreen' = V.nextScreen
        /\ editing' = V.editing
        /\ editor' = V.editor
        /\ loading' = V.loading
        /\ hierarchy' = V.hierarchy
        /\ levels' = V.levels
        /\ particles' = V.particles
        /\ timers' = V.timers
        /\ spawnedEv' = V.spawnedEv
        /\ despawnedEv' = V.despawnedEv
        /\ endLevelEv' = V.endLevelEv
        /\ endGameEv' = V.endGameEv
        /\ splitQ' = V.splitQ
        /\ rawP' = V.rawP
        /\ rawK' = V.rawK
        /\ killQ' = V.killQ
        /\ cmds' = V.cmds
        /\ timeScale' = V.timeScale
        /\ timeOverride' = V.timeOverride
        /\ physScale' = V.physScale
        /\ setScaleEv' = V.setScaleEv
        /\ setOverrideEv' = V.setOverrideEv
        /\ removedEv' = V.removedEv
        /\ panic' = V.panic
        /\ wrapped' = V.wrapped
        /\ timersStarted' = V.timersStarted
        /\ endLevelEmitted' = V.endLevelEmitted
        /\ hist' = V.hist
        /\ endHandled' = V.endHandled
        /\ killHist' = V.killHist
        /\ restartHist' = V.restartHist
        /\ classLog' = V.classLog
        /\ dropped' = V.dropped

Panic(W, site) == [W EXCEPT !.panic = site]

crashed == panic # "none"

NoHist == [log |-> <<>>, live |-> {}, spawned |-> 0, despawned |-> 0]
NotHandled == [g |-> 0, tag |-> [kind |-> "None", id |-> 0], branch |-> "none"]
NoRestart == [g |-> 0, data |-> EmptyLevelData, tag |-> NoTag]
NoKill == [players |-> {}, events |-> {}, override |-> "None", before |-> <<>>]

\* Entities matched by Query<.., With<RawLevel>>.
LevelEntities(W) == DOMAIN W.levels
\* Entities matched by Query<&Player>.
PlayerEntities(W) == {g \in DOMAIN W.levels : W.levels[g].player}

\* src: the contact event a triggered event comes from and the particles
\* that were Immune when that contact began (history), else NoContact.
NoContact == [id |-> 0, immune |-> {}]
Origin(ev) == [id |-> ev.id, immune |-> ev.immune]
CmdFrom(op, g, a, b, src) == [op |-> op, g |-> g, a |-> a, b |-> b, src |-> src]
Cmd(op, g, a, b) == CmdFrom(op, g, a, b, NoContact)
Queue(W, c) == [W EXCEPT !.cmds = Append(@, c)]

\* -------------------------------------------------------------- time scale
\* TimeScaleKind::value (1.0 / 0.1), as the scale handed to the physics step.
Value(kind) == IF kind = "Slowed" THEN "slowed" ELSE "normal"

WriteSetTimeScale(W, kind) ==
    [W EXCEPT !.setScaleEv = Append(@, [v |-> kind, age |-> 0])]

WriteSetTimeScaleOverride(W, ov) ==
    [W EXCEPT !.setOverrideEv = Append(@, [v |-> ov, age |-> 0])]

\* What kill and decrease_particle_count write: override cleared, automatic
\* value Normal.
RestoreTimeScale(W) ==
    WriteSetTimeScale(WriteSetTimeScaleOverride(W, "None"), "Normal")

RECURSIVE SetTimeScaleEvents(_, _)
SetTimeScaleEvents(W, q) ==
    IF q = <<>> THEN [W EXCEPT !.setScaleEv = <<>>]
    ELSE LET W1 == [W EXCEPT !.timeScale = Head(q).v]
             W2 == IF W1.timeOverride = "None"
                   THEN [W1 EXCEPT !.physScale = Value(W1.timeScale)]
                   ELSE W1
         IN  SetTimeScaleEvents(W2, Tail(q))

\* The events a system finds unread: all of them, or, when it runs before
\* the systems that write this frame (early), those of the previous frame.
Readable(q, early) == IF early THEN SelectSeq(q, LAMBDA e : e.age = 1) ELSE q
Unseen(q, early) == IF early THEN SelectSeq(q, LAMBDA e : e.age = 0) ELSE <<>>

\* A set_time_scale without the test of the override (variant).
set_time_scale_ignoring_override(W, early) ==
    [W EXCEPT !.timeScale = IF Readable(W.setScaleEv, early) = <<>> THEN @
                            ELSE Readable(W.setScaleEv, early)[Len(Readable(W.setScaleEv, early))].v,
              !.physScale = IF Readable(W.setScaleEv, early) = <<>> THEN @
                            ELSE Value(Readable(W.setScaleEv, early)[Len(Readable(W.setScaleEv, early))].v),
              !.setScaleEv = Unseen(W.setScaleEv, early)]

set_time_scale(W, early) ==
    [SetTimeScaleEvents(W, Readable(W.setScaleEv, early))
        EXCEPT !.setScaleEv = Unseen(W.setScaleEv, early)]

RECURSIVE SetTimeScaleOverrideEvents(_, _)
SetTimeScaleOverrideEvents(W, q) ==
    IF q = <<>> THEN [W EXCEPT !.setOverrideEv = <<>>]
    ELSE LET W1 == [W EXCEPT !.timeOverride = Head(q).v]
             W2 == [W1 EXCEPT !.physScale =
                        IF W1.timeOverride # "None" THEN Value(W1.timeOverride)
                        ELSE Value(W1.timeScale)]
         IN  SetTimeScaleOverrideEvents(W2, Tail(q))

set_time_scale_override(W, early) ==
    [SetTimeScaleOverrideEvents(W, Readable(W.setOverrideEv, early))
        EXCEPT !.setOverrideEv = Unseen(W.setOverrideEv, early)]

\* button: what MouseButton::Right did this frame.
override_time_scale(W, button) ==
    IF PlayerEntities(W) = {} THEN W
    ELSE IF button = "pressed" THEN WriteSetTimeScaleOverride(W, "Normal")
    ELSE IF button = "released" THEN WriteSetTimeScaleOverride(W, "None")
    ELSE W

\* ------------------------------------------------ particle instances, spawn
\* ParticleSpawned is written once for every particle instance spawned.
ParticleSpawnedHook(W) == [W EXCEPT !.spawnedEv.new = @ + 1]

\* ParticleDespawned is written once for every particle instance destroyed
\* by a decomposition.
ParticleDespawnedHook(W) == [W EXCEPT !.despawnedEv.new = @ + 1]

\* CollisionGroups::new(memberships, filters); Group::all() is every bit.
AllGroups == 1..32
CollisionGroups(memberships, filters) ==
    [memberships |-> memberships, filters |-> filters]

\* Variant of VulnerableGroups whose filter lets normal particles push each
\* other, and of SensorGroups whose filter lets a sensor see terrain.
VulnerableGroupsPushing == CollisionGroups({3}, {1, 3})
SensorGroupsSeeingTerrain == CollisionGroups({3}, {1, 3})

\* Variant of ImmuneGroups: a particle with Invincible in the groups of one
\* without.
ImmuneGroupsAsVulnerable == CollisionGroups({3}, {1})

TerrainGroups == CollisionGroups({1}, AllGroups)       \* obstacle, screen_bounds
KillerTerrainGroups == CollisionGroups({1, 3}, AllGroups)  \* obstacle, is_killer
PlayerGroups == CollisionGroups({2}, {1, 2})            \* player body
SensorGroups == CollisionGroups({3}, {3})               \* Player Sensor, Particle Sensor
ImmuneGroups == CollisionGroups({2}, {1, 2})            \* particle with Invincible
VulnerableGroups == CollisionGroups({3}, {1})           \* particle without

\* InteractionGroups::test of the physics engine: two colliders interact iff
\* each one's memberships meet the other's filters.
Interacts(c1, c2) ==
    /\ c1.groups.memberships \cap c2.groups.filters # {}
    /\ c2.groups.memberships \cap c1.groups.filters # {}

\* The colliders of the level instances: per level the walls of
\* screen_bounds, the killer obstacle if the level has one, the player's
\* body and sensor; per particle its body and sensor.
Collider(kind, owner, sensor, groups) ==
    [kind |-> kind, owner |-> owner, sensor |-> sensor, groups |-> groups]

Colliders(W) ==
    {Collider("terrain", <<g, 0>>, FALSE, TerrainGroups) : g \in DOMAIN W.levels}
    \cup {Collider("killer_terrain", <<g, 0>>, FALSE, KillerTerrainGroups) :
             g \in {h \in DOMAIN W.levels : W.levels[h].data.killerObstacle}}
    \cup {Collider("player", <<g, 0>>, FALSE, PlayerGroups) :
             g \in {h \in DOMAIN W.levels : W.levels[h].player}}
    \cup {Collider("player", <<g, 0>>, TRUE, SensorGroups) :
             g \in {h \in DOMAIN W.levels : W.levels[h].player}}
    \cup {Collider("particle", id, FALSE, W.particles[id].groups) :
             id \in DOMAIN W.particles}
    \cup {Collider("particle", id, TRUE, SensorGroups) : id \in DOMAIN W.particles}

\* Variant of particle_bundle that never inserts Invincible.
particle_bundle_bare(id, with_invincibility) ==
    [ inv |-> NoTimer,
      groups |-> VulnerableGroups,
      subparticles |-> Subparticles(id[2]) ]

\* particle_bundle: the instance of forest node id[2]; born Immune (timer at
\* 0 elapsed) iff with_invincibility.
particle_bundle(id, with_invincibility) ==
    [ inv |-> IF with_invincibility THEN 0 ELSE NoTimer,
      groups |-> IF with_invincibility THEN ImmuneGroups ELSE VulnerableGroups,
      subparticles |-> Subparticles(id[2]) ]

SpawnParticleInstance(W, id, with_invincibility) ==
    ParticleSpawnedHook(
        [W EXCEPT !.particles = @ @@ (id :> particle_bundle(id, with_invincibility))])

RECURSIVE SpawnRoots(_, _, _)
SpawnRoots(W, g, roots) ==
    IF roots = <<>> THEN W
    ELSE SpawnRoots(SpawnParticleInstance(W, <<g, Head(roots)>>, FALSE), g, Tail(roots))

\* Entity ids are opaque: a new level instance takes the least id that no
\* live level and no pending event or command refers to.
UsedGens(W) ==
    DOMAIN W.levels
    \cup {W.splitQ[i].p[1] : i \in DOMAIN W.splitQ}
    \cup {W.rawP[i].a.e[1] : i \in DOMAIN W.rawP}
    \cup {W.rawP[i].b.e[1] : i \in DOMAIN W.rawP}
    \cup {W.rawK[i].a.e[1] : i \in DOMAIN W.rawK}
    \cup {W.rawK[i].b.e[1] : i \in DOMAIN W.rawK}
    \cup {W.killQ[i].player : i \in DOMAIN W.killQ}
    \cup {W.cmds[i].g : i \in DOMAIN W.cmds}
    \cup W.killHist.players
FreshGen(W) == CHOOSE g \in 1..(Cardinality(UsedGens(W)) + 1) :
                  /\ g \notin UsedGens(W)
                  /\ \A h \in 1..(g - 1) : h \in UsedGens(W)

\* Observer of SpawnRawLevel: a new level instance with its player, its root
\* particles (Vulnerable) and RawLevel(data); ParticleCount and LevelState
\* take their defaults.
spawn_raw_level(W, data, tag) ==
    LET g == FreshGen(W)
        W1 == [W EXCEPT
                 !.levels = @ @@ (g :> [tag |-> tag, data |-> data,
                                        state |-> "Playing", count |-> 0,
                                        player |-> TRUE,
                                        can_move |-> TRUE, launches |-> 0]),
                 !.timersStarted = @ @@ (g :> 0),
                 !.endLevelEmitted = @ @@ (g :> 0)]
    IN  SpawnRoots(W1, g, data.roots)

\* Observer of SpawnLevel.
spawn_level(W, tag) ==
    IF tag.kind = "Default"
    THEN IF tag.id < NumDefaultLevels
         THEN spawn_raw_level(W, DefaultLevels[tag.id + 1], tag)
         ELSE Panic(W, "spawn_level")       \* default.get(id).unwrap()
    ELSE Panic(W, "spawn_level")            \* custom table is empty: unwrap()

\* Despawning a level instance takes its children with it.
DespawnLevel(W, g) ==
    IF g \notin DOMAIN W.levels THEN W
    ELSE [W EXCEPT
            !.restartHist = IF @.g = g THEN NoRestart ELSE @,
            !.levels = Restrict(@, DOMAIN @ \ {g}),
            !.particles = Restrict(@, {id \in DOMAIN @ : id[1] # g}),
            !.timers = Restrict(@, {k \in DOMAIN @ : k[1] # g}),
            !.timersStarted = Restrict(@, DOMAIN @ \ {g}),
            !.endLevelEmitted = Restrict(@, DOMAIN @ \ {g})]

\* ----------------------------------------------------- collision observers
ThePlayer(W) == CHOOSE g \in PlayerEntities(W) : TRUE

\* if let Ok(mut player) = player_query.single_mut() { player.can_move = false; }
StopPlayer(W) ==
    IF Cardinality(PlayerEntities(W)) = 1
    THEN [W EXCEPT !.levels[ThePlayer(W)].can_move = FALSE]
    ELSE W

\* handle_drag_input: the last StretchInputEvent of the frame launches the
\* player when can_move holds.  The system is run in the frames in which
\* an event was written.
handle_drag_input(W, stretched) ==
    IF PlayerEntities(W) = {} THEN W                          \* query.is_empty()
    ELSE IF Cardinality(PlayerEntities(W)) # 1
    THEN Panic(W, "handle_drag_input")                       \* single_mut().unwrap()
    ELSE IF ~W.levels[ThePlayer(W)].can_move THEN W
    ELSE IF ~stretched THEN W
    ELSE WriteSetTimeScale([W EXCEPT !.levels[ThePlayer(W)].can_move = FALSE,
                                     !.levels[ThePlayer(W)].launches = @ + 1],
                           "Normal")

player_particle_collision(W, p, src) ==
    IF p \notin DOMAIN W.particles
    THEN Panic(W, "player_particle_collision")            \* get(..).unwrap()
    ELSE IF W.particles[p].inv # NoTimer THEN W
    ELSE IF Cardinality(PlayerEntities(W)) # 1
    THEN Panic(W, "player_particle_collision")            \* single_mut().unwrap()
    ELSE [W EXCEPT !.levels[ThePlayer(W)].can_move = TRUE,
                   !.physScale = "slow",               \* time_speed.slow
                   !.splitQ = Append(@, [p |-> p, age |-> 0, src |-> src])]

particle_particle_collision(W, p1, p2, src) ==
    [W EXCEPT !.splitQ = @ \o << [p |-> p1, age |-> 0, src |-> src],
                                 [p |-> p2, age |-> 0, src |-> src] >>]

\* ------------------------------------------------------- applying commands
ApplyCmd(W, c) ==
    CASE c.op = "despawnLevel" -> DespawnLevel(W, c.a)
      [] c.op = "spawnRawLevel" ->
            [spawn_raw_level(W, c.a, c.b) EXCEPT !.restartHist.g = FreshGen(W)]
      [] c.op = "spawnLevel" -> spawn_level(W, c.a)
      [] c.op = "startTimer" ->
            IF c.a \in DOMAIN W.levels
            THEN [W EXCEPT !.timers = @ @@ (<<c.a, W.timersStarted[c.a]>> :> 0),
                           !.timersStarted[c.a] = @ + 1]
            ELSE W
      [] c.op = "despawnTimer" ->
            [W EXCEPT !.timers = Restrict(@, DOMAIN @ \ {c.a})]
      [] c.op = "spawnChild" ->
            IF c.a[1] \in DOMAIN W.levels
            THEN SpawnParticleInstance(W, c.a, TRUE)
            ELSE W
      [] c.op = "despawnBundle" ->
            IF c.a \in DOMAIN W.particles
            THEN ParticleDespawnedHook(
                    [W EXCEPT !.particles = Restrict(@, DOMAIN @ \ {c.a})])
            ELSE W
      [] c.op = "triggerPlayerParticle" -> player_particle_collision(W, c.a, c.src)
      [] c.op = "triggerParticleParticle" ->
            particle_particle_collision(W, c.a, c.b, c.src)
      [] c.op = "despawnPlayer" ->
            IF c.a \in DOMAIN W.levels
            THEN [W EXCEPT !.levels[c.a].player = FALSE]
            ELSE W
      [] c.op = "removeInvincible" ->
            IF c.a \in DOMAIN W.particles
            THEN [W EXCEPT !.particles[c.a].inv = NoTimer,
                           !.particles[c.a].groups = VulnerableGroups]
            ELSE W

\* A sync point (ApplyDeferred): every queued command is applied, in order.
RECURSIVE ApplyDeferred(_)
ApplyDeferred(W) ==
    IF W.cmds = <<>> \/ W.panic # "none" THEN W
    ELSE ApplyDeferred(ApplyCmd([W EXCEPT !.cmds = Tail(@)], Head(W.cmds)))

RECURSIVE SetToSeq(_)
SetToSeq(S) ==
    IF S = {} THEN <<>>
    ELSE LET x == CHOOSE x \in S : TRUE IN <<x>> \o SetToSeq(S \ {x})

TheLevel(W) == CHOOSE g \in LevelEntities(W) : TRUE

\* ------------------------------------------------- systems of Update (level)
restart_level(W, justPressed) ==
    IF ~justPressed THEN W
    ELSE IF Cardinality(LevelEntities(W)) # 1
    THEN Panic(W, "restart_level")                        \* single_mut().unwrap()
    ELSE LET g == TheLevel(W)
             l == W.levels[g]
             W1 == [W EXCEPT !.levels[g].data = EmptyLevelData,   \* mem::take
                             !.restartHist = [g |-> 0, data |-> l.data, tag |-> l.tag]]
         IN  Queue(Queue(W1, Cmd("despawnLevel", g, g, 0)),
                   Cmd("spawnRawLevel", 0, l.data, l.tag))

increase_particle_count(W) ==
    IF Cardinality(LevelEntities(W)) # 1
    THEN Panic(W, "increase_particle_count")              \* single_mut().unwrap()
    ELSE LET g == TheLevel(W) IN
         IF W.levels[g].state = "Ended" THEN W
         ELSE [W EXCEPT !.levels[g].count = @ + Unread(W.spawnedEv),
                        !.spawnedEv = NoEvents]

\* Variant of decrease_particle_count that does not return early on a level
\* that is already Ended.
decrease_ignoring_ended(W, overflowChecks) ==
    IF Cardinality(LevelEntities(W)) # 1
    THEN Panic(W, "decrease_particle_count")
    ELSE LET g == TheLevel(W)
             n == Unread(W.despawnedEv)
             c == W.levels[g].count - n
         IN  IF overflowChecks /\ c < 0
             THEN Panic(W, "subtract with overflow")
             ELSE LET W1 == [W EXCEPT !.levels[g].count = c,
                                      !.despawnedEv = NoEvents,
                                      !.wrapped = @ \/ c < 0]
                  IN  IF c = 0
                      THEN RestoreTimeScale(
                               Queue(StopPlayer([W1 EXCEPT !.levels[g].state = "Ended"]),
                                     Cmd("startTimer", g, g, n)))
                      ELSE W1

\* overflowChecks: the build profile (debug: `-=` panics on underflow;
\* release: it wraps).  A build that has wrapped once has no checks.
decrease_particle_count(W, overflowChecks) ==
    IF Cardinality(LevelEntities(W)) # 1
    THEN Panic(W, "decrease_particle_count")              \* single_mut().unwrap()
    ELSE LET g == TheLevel(W)
             l == W.levels[g]
             n == Unread(W.despawnedEv)
             c == l.count - n
         IN  IF l.state = "Ended" THEN W
             ELSE IF overflowChecks /\ c < 0
             THEN Panic(W, "subtract with overflow")
             ELSE LET W1 == [W EXCEPT !.levels[g].count = c,
                                      !.despawnedEv = NoEvents,
                                      !.wrapped = @ \/ c < 0]
                  IN  IF c = 0
                      THEN RestoreTimeScale(
                               Queue(StopPlayer([W1 EXCEPT !.levels[g].state = "Ended"]),
                                     Cmd("startTimer", g, g, n)))
                      ELSE W1

\* Timer::tick on a TimerMode::Once timer; just_finished holds in the tick
\* in which elapsed reaches the duration.
TimerTick(elapsed, dt, duration) == Min(elapsed + dt, duration)
JustFinished(elapsed, dt, duration) == elapsed < duration /\ elapsed + dt >= duration

\* Variant of tick_end_level_timer that writes EndLevel in whatever tick it
\* finds a timer, finished or not.
tick_end_level_timer_any_tick(W, dt) ==
    LET done == DOMAIN W.timers
        doneSeq == SetToSeq(done)
    IN  [W EXCEPT
           !.timers = [k \in DOMAIN @ |-> TimerTick(@[k], dt, EndLevelDuration)],
           !.endLevelEv.new = @ + Cardinality(done),
           !.endLevelEmitted = [g \in DOMAIN @ |->
                                  @[g] + Cardinality({k \in done : k[1] = g})],
           !.cmds = @ \o [i \in DOMAIN doneSeq |-> Cmd("despawnTimer", doneSeq[i][1], doneSeq[i], 0)]]

tick_end_level_timer(W, dt) ==
    LET done == {k \in DOMAIN W.timers : JustFinished(W.timers[k], dt, EndLevelDuration)}
        doneSeq == SetToSeq(done)
    IN  [W EXCEPT
           !.timers = [k \in DOMAIN @ |-> TimerTick(@[k], dt, EndLevelDuration)],
           !.endLevelEv.new = @ + Cardinality(done),
           !.endLevelEmitted = [g \in DOMAIN @ |->
                                  @[g] + Cardinality({k \in done : k[1] = g})],
           !.cmds = @ \o [i \in DOMAIN doneSeq |-> Cmd("despawnTimer", doneSeq[i][1], doneSeq[i], 0)]]

end_level(W) ==
    IF Unread(W.endLevelEv) = 0 THEN W
    ELSE IF Cardinality(LevelEntities(W)) # 1
    THEN Panic(W, "end_level")                            \* single().unwrap()
    ELSE LET g == TheLevel(W)
             tag == W.levels[g].tag
             H(branch) == [W EXCEPT !.endHandled = [g |-> g, tag |-> tag, branch |-> branch]]
         IN  CASE tag.kind = "None" ->
                    [H("screen") EXCEPT
                        !.nextScreen = IF W.editing THEN "Editor" ELSE "Levels"]
               [] tag.kind = "Default" ->
                    IF NumDefaultLevels <= tag.id + 1
                    THEN [H("endgame") EXCEPT !.endGameEv.new = @ + 1]
                    ELSE Queue(Queue([H("advance") EXCEPT !.endLevelEv = NoEvents],
                                     Cmd("spawnLevel", 0, DefaultTag(tag.id + 1), 0)),
                               Cmd("despawnLevel", g, g, 0))
               [] OTHER -> Panic(H("panic"), "Not implemented.")

end_game(W) ==
    IF Unread(W.endGameEv) = 0 THEN W
    ELSE [W EXCEPT !.nextScreen = "End", !.endGameEv = NoEvents]

\* ------------------------------------------------------------ invincibility
\* Variant of tick_invincibility that ticks the timers and never removes
\* Invincible.
tick_invincibility_no_removal(W, dt) ==
    [W EXCEPT
       !.particles = [id \in DOMAIN @ |->
            IF @[id].inv # NoTimer
            THEN [@[id] EXCEPT !.inv = TimerTick(@, dt, InvincibilityDuration)]
            ELSE @[id]]]

\* Variant of tick_invincibility that writes no InvincibleRemoved.
tick_invincibility_silent(W, dt) ==
    LET immune == {id \in DOMAIN W.particles : W.particles[id].inv # NoTimer}
        done == {id \in immune : JustFinished(W.particles[id].inv, dt, InvincibilityDuration)}
        doneSeq == SetToSeq(done)
    IN  [W EXCEPT
           !.particles = [id \in DOMAIN @ |->
                IF id \in immune
                THEN [@[id] EXCEPT !.inv = TimerTick(@, dt, InvincibilityDuration)]
                ELSE @[id]],
           !.cmds = @ \o [i \in DOMAIN doneSeq |-> Cmd("removeInvincible", doneSeq[i][1], doneSeq[i], 0)]]

\* The timer is ticked by the frame's delta; in the tick that finishes it the
\* removal of Invincible and the vulnerable CollisionGroups are queued
\* (particle.rs) and InvincibleRemoved(entity) is written (invincible.rs).
tick_invincibility(W, dt) ==
    LET immune == {id \in DOMAIN W.particles : W.particles[id].inv # NoTimer}
        done == {id \in immune : JustFinished(W.particles[id].inv, dt, InvincibilityDuration)}
        doneSeq == SetToSeq(done)
    IN  [W EXCEPT
           !.particles = [id \in DOMAIN @ |->
                IF id \in immune
                THEN [@[id] EXCEPT !.inv = TimerTick(@, dt, InvincibilityDuration)]
                ELSE @[id]],
           !.cmds = @ \o [i \in DOMAIN doneSeq |-> Cmd("removeInvincible", doneSeq[i][1], doneSeq[i], 0)],
           !.removedEv = @ \o [i \in DOMAIN doneSeq |-> [p |-> doneSeq[i], age |-> 0]]]

\* ------------------------------------------------------------------ physics
\* Rigid bodies a contact is resolved to (find_rigidbody_ancestor).
PlayerBody(g) == [t |-> "player", e |-> <<g, 0>>]
ParticleBody(id) == [t |-> "particle", e |-> id]
KillerObstacleBody(g) == [t |-> "obstacle", e |-> <<g, 0>>]
NoBody == [t |-> "none", e |-> <<0, 0>>]

BodyExists(W, b) ==
    CASE b.t = "player" -> b.e[1] \in PlayerEntities(W)
      [] b.t = "particle" -> b.e \in DOMAIN W.particles
      [] b.t = "obstacle" -> b.e[1] \in DOMAIN W.levels
      [] OTHER -> FALSE

HasPlayer(b) == b.t = "player"
HasParticle(b) == b.t = "particle"
HasKiller(b) == b.t = "obstacle" \/ (b.t = "particle" /\ IsKillerKind(b.e[2]))

\* id: serial number of the event in the session; immune: the particle
\* instances of the pair that were Immune when the contact began (history).
Started(a, b) ==
    [kind |-> "Started", a |-> a, b |-> b, age |-> 0, id |-> 0, immune |-> {}]
Stopped ==
    [kind |-> "Stopped", a |-> NoBody, b |-> NoBody, age |-> 0, id |-> 0, immune |-> {}]

ImmuneSides(W, ev) ==
    {id \in {ev.a.e, ev.b.e} \cap DOMAIN W.particles : W.particles[id].inv # NoTimer}

\* The events of one physics step, numbered down from `first`.
Stamp(W, batch, first) ==
    [i \in DOMAIN batch |->
        [batch[i] EXCEPT !.id = first - i + 1, !.immune = ImmuneSides(W, batch[i])]]

\* Contact events the physics step can report: sensor against sensor
\* (player, particles) and player sensor against a killer obstacle, between
\* bodies of one level; a pair of particles in either order, a pair with the
\* player in either order when sc.bothOrders; a contact-end event when
\* sc.stopped.
PossibleContacts(W, sc) ==
    LET players == {PlayerBody(g) : g \in PlayerEntities(W)}
        parts == {ParticleBody(id) : id \in DOMAIN W.particles}
        obst == {KillerObstacleBody(g) :
                    g \in {h \in DOMAIN W.levels : W.levels[h].data.killerObstacle}}
        pairs == (players \X parts) \cup (players \X obst)
                 \cup {x \in parts \X parts : x[1] # x[2]}
                 \cup (IF sc.bothOrders
                       THEN (parts \X players) \cup (obst \X players)
                       ELSE {})
    IN  {Started(pr[1], pr[2]) : pr \in {x \in pairs : x[1].e[1] = x[2].e[1]}}
        \cup (IF sc.stopped THEN {Stopped} ELSE {})

\* One step reports the beginning of a contact between two bodies once.
SamePair(e1, e2) ==
    e1.kind = "Started" /\ e2.kind = "Started" /\ {e1.a, e1.b} = {e2.a, e2.b}

ContactBatches(W, sc, n) ==
    {batch \in UNION {[1..k -> PossibleContacts(W, sc)] : k \in 0..n} :
        \A i, j \in DOMAIN batch : SamePair(batch[i], batch[j]) => i = j}

\* ------------------------------------------------------ collision handlers
\* A semantic event: PlayerParticleCollisionEvent{particle: x},
\* ParticleParticleCollisionEvent{particle1: x, particle2: y},
\* KillEvent{player: x} (y: the killer, history).
Sem(t, x, y) == [t |-> t, x |-> x, y |-> y]
NoSem == Sem("none", NoBody, NoBody)

\* The log of a frame: the event a handler looked at, whether both of its
\* colliders resolved to a rigid body, and what the handler emitted.
Classified(W, handler, ev, sem) ==
    [W EXCEPT !.classLog =
        Append(@, [h |-> handler, ev |-> ev, sem |-> sem,
                   resolved |-> BodyExists(W, ev.a) /\ BodyExists(W, ev.b)])]

\* Variant of ParticleSem that tests a pair with the player in one order only.
ParticleSemOneOrder(ev) ==
    IF HasPlayer(ev.a) /\ HasParticle(ev.b)
    THEN Sem("PlayerParticle", ev.b, NoBody)
    ELSE IF HasParticle(ev.a) /\ HasParticle(ev.b)
    THEN Sem("ParticleParticle", ev.a, ev.b)
    ELSE NoSem

\* What particle_collision_handler triggers for a pair of resolved bodies.
ParticleSem(ev) ==
    IF HasPlayer(ev.a) /\ HasParticle(ev.b)
    THEN Sem("PlayerParticle", ev.b, NoBody)
    ELSE IF HasPlayer(ev.b) /\ HasParticle(ev.a)
    THEN Sem("PlayerParticle", ev.a, NoBody)
    ELSE IF HasParticle(ev.a) /\ HasParticle(ev.b)
    THEN Sem("ParticleParticle", ev.a, ev.b)
    ELSE NoSem

\* commands.trigger(..)
Trigger(W, sem, src) ==
    IF sem.t = "PlayerParticle"
    THEN Queue(W, CmdFrom("triggerPlayerParticle", sem.x.e[1], sem.x.e, 0, src))
    ELSE Queue(W, CmdFrom("triggerParticleParticle", sem.x.e[1], sem.x.e, sem.y.e, src))

RECURSIVE ParticleClassify(_, _)
ParticleClassify(W, q) ==
    IF q = <<>> THEN [W EXCEPT !.rawP = <<>>]
    ELSE LET ev == Head(q)
             W1 == [W EXCEPT !.rawP = Tail(q)]
             sem == ParticleSem(ev)
         IN  IF ev.kind # "Started"
             THEN Classified(W1, "particle", ev, NoSem)               \* return
             ELSE IF ~BodyExists(W, ev.a) \/ ~BodyExists(W, ev.b)
                  THEN Panic(Classified(W1, "particle", ev, NoSem),
                             "particle_collision_handler")
                                              \* find_rigidbody_ancestor(..).unwrap()
             ELSE IF sem # NoSem
                  THEN Trigger(Classified(W1, "particle", ev, sem), sem, Origin(ev))
                                                                      \* return
             ELSE ParticleClassify(Classified(W, "particle", ev, NoSem), Tail(q))

particle_collision_handler(W) == ParticleClassify(W, W.rawP)

\* What killer_collision_handler writes for a pair of resolved bodies.
KillerSem(ev) ==
    IF HasKiller(ev.a) /\ HasPlayer(ev.b) THEN Sem("Kill", ev.b, ev.a)
    ELSE IF HasKiller(ev.b) /\ HasPlayer(ev.a) THEN Sem("Kill", ev.a, ev.b)
    ELSE NoSem

RECURSIVE KillerClassify(_, _)
KillerClassify(W, q) ==
    IF q = <<>> THEN [W EXCEPT !.rawK = <<>>]
    ELSE LET ev == Head(q)
             W1 == [W EXCEPT !.rawK = Tail(q)]
             sem == KillerSem(ev)
         IN  IF ev.kind # "Started" \/ ~BodyExists(W, ev.a) \/ ~BodyExists(W, ev.b)
             THEN Classified(W1, "killer", ev, NoSem)                 \* return
             ELSE IF sem # NoSem
                  THEN [Classified(W1, "killer", ev, sem) EXCEPT
                           !.killQ = Append(@, [player |-> sem.x.e[1], age |-> 0,
                                                src |-> ev.id, by |-> sem.y])]
                                                                      \* return
             ELSE KillerClassify(Classified(W, "killer", ev, NoSem), Tail(q))

killer_collision_handler(W) == KillerClassify(W, W.rawK)

\* ------------------------------------------------------------ decomposition
RECURSIVE QueueChildren(_, _, _)
QueueChildren(W, g, subs) ==
    IF subs = <<>> THEN W
    ELSE QueueChildren(Queue(W, Cmd("spawnChild", g, <<g, Head(subs)>>, 0)), g, Tail(subs))

\* The log of one run: the particle each event named, the children it held
\* when the event was handled, and the branch split_particle took.
Handled(W, ev, outcome, subs) ==
    [W EXCEPT !.hist.log = Append(@, [p |-> ev.p, src |-> ev.src, outcome |-> outcome,
                                      children |-> subs])]

RECURSIVE SplitEvents(_, _)
SplitEvents(W, q) ==
    IF q = <<>> THEN [W EXCEPT !.splitQ = <<>>]
    ELSE LET p == Head(q).p
             ev == Head(q)
             W1 == [W EXCEPT !.splitQ = Tail(q)]
         IN  IF p \notin DOMAIN W.particles
             THEN Panic(Handled(W1, ev, "missing", <<>>), "split_particle")
                                                               \* get_mut(..).unwrap()
             ELSE IF W.particles[p].inv # NoTimer
             THEN Handled(W1, ev, "immune", W.particles[p].subparticles)   \* return
             ELSE IF Cardinality(PlayerEntities(W)) # 1
             THEN Panic(Handled(W1, ev, "noplayer", W.particles[p].subparticles),
                        "split_particle")
                                                               \* single().unwrap()
             ELSE LET subs == W.particles[p].subparticles
                      W2 == [W1 EXCEPT !.particles[p].subparticles = <<>>]  \* mem::take
                      W3 == Queue(QueueChildren(W2, p[1], subs),
                                  Cmd("despawnBundle", p[1], p, 0))
                  IN  SplitEvents(Handled(W3, ev, "split", subs), Tail(q))

split_particle(W) ==
    SplitEvents([W EXCEPT !.hist = [log |-> <<>>, live |-> DOMAIN W.particles,
                                    spawned |-> W.spawnedEv.new,
                                    despawned |-> W.despawnedEv.new]],
                W.splitQ)

\* ---------------------------------------------------------------- kill
RECURSIVE KillEvents(_, _)
KillEvents(W, q) ==
    IF q = <<>> THEN [W EXCEPT !.killQ = <<>>]
    ELSE KillEvents(
            RestoreTimeScale(
                Queue(W, Cmd("despawnPlayer", Head(q).player, Head(q).player, 0))),
            Tail(q))

\* What a run of kill found: the players its events named, the override in
\* force and every level's state and count.
KillSeen(W) ==
    IF W.killQ = <<>> THEN W
    ELSE [W EXCEPT !.killHist =
            [players |-> {W.killQ[i].player : i \in DOMAIN W.killQ},
             events |-> {[src |-> W.killQ[i].src, by |-> W.killQ[i].by] :
                            i \in DOMAIN W.killQ},
             override |-> W.timeOverride,
             before |-> [g \in DOMAIN W.levels |->
                            << W.levels[g].state, W.levels[g].count >>]]]

RECURSIVE DespawnEvents(_, _)
DespawnEvents(W, q) ==
    IF q = <<>> THEN [W EXCEPT !.killQ = <<>>]
    ELSE DespawnEvents(
            Queue(W, Cmd("despawnPlayer", Head(q).player, Head(q).player, 0)),
            Tail(q))

\* Variant of kill that despawns the player and writes no time-scale event.
kill_despawn_only(W) == DespawnEvents(KillSeen(W), W.killQ)

kill(W) == KillEvents(KillSeen(W), W.killQ)
\* ------------------------------------------------------------ level assets
\* Assets<LevelData>: the name field of the level each handle stands for, a
\* string being its characters.  Handles 1 and 2 are levels/default/0.ron
\* and levels/default/1.ron.
LevelFiles ==
    << <<"0">>, <<"1">>, <<"1", "0">>, <<"2">>, <<"a">>, <<"0", "2">> >>

DigitChars == <<"0", "1", "2", "3", "4", "5", "6", "7", "8", "9">>
IsNumber(name) ==
    name # <<>> /\ \A i \in DOMAIN name : \E d \in DOMAIN DigitChars : DigitChars[d] = name[i]

\* str::parse::<usize> of a name of digits.
RECURSIVE parse(_)
parse(name) ==
    IF name = <<>> THEN 0
    ELSE parse(SubSeq(name, 1, Len(name) - 1)) * 10
         + (CHOOSE d \in DOMAIN DigitChars : DigitChars[d] = name[Len(name)]) - 1

\* Vec::sort_by is stable: a handle goes behind those that do not compare
\* greater.
RECURSIVE SortedByName(_)
SortedByName(handles) ==
    IF handles = <<>> THEN <<>>
    ELSE LET h == handles[Len(handles)]
             front == SortedByName(SubSeq(handles, 1, Len(handles) - 1))
             keep == SelectSeq(front, LAMBDA x : parse(LevelFiles[x]) <= parse(LevelFiles[h]))
             rest == SelectSeq(front, LAMBDA x : parse(LevelFiles[x]) > parse(LevelFiles[h]))
         IN  keep \o <<h>> \o rest

\* A map_default that keeps the order of the handles (variant).
map_default_unsorted(handles) == handles

\* The comparator runs when there are two handles or more, and panics at a
\* name that is no number; <<>> stands for the panic.
map_default(handles) ==
    IF Len(handles) >= 2 /\ \E i \in DOMAIN handles : ~IsNumber(LevelFiles[handles[i]])
    THEN <<>>
    ELSE SortedByName(handles)

MapDefaultPanics(handles) ==
    Len(handles) >= 2 /\ \E i \in DOMAIN handles : ~IsNumber(LevelFiles[handles[i]])

\* collect() into a HashMap: of two handles of one name the later one stays.
map_custom(handles) ==
    { [name |-> LevelFiles[handles[i]], handle |-> handles[i]] :
        i \in {i \in DOMAIN handles :
                  \A j \in DOMAIN handles : j > i => LevelFiles[handles[j]] # LevelFiles[handles[i]]} }

\* LevelHandles as created by from_world: no level file has been read yet,
\* LevelAssets is not inserted.  levels is Assets<LevelData>, errors the
\* handles whose load returned an error, event a pending
\* AssetEvent::LoadedWithDependencies of LevelHandles.
Loaded(default, custom) ==
    [ handles |-> [default |-> default, custom |-> custom],
      given |-> [default |-> default, custom |-> custom],
      levels |-> {}, errors |-> {},
      event |-> (default = <<>> /\ custom = <<>>),
      assets |-> <<>>, found |-> <<>> ]

\* levels.get(h).unwrap() in the comparator and in map_custom.
MissingLevel(W, handles, least) ==
    Len(handles) >= least /\ \E i \in DOMAIN handles : handles[i] \notin W.loading.levels

initialize_level_assets(W) ==
    LET default == W.loading.handles.default
        taken == [W.loading.handles EXCEPT !.default = <<>>]
        custom == taken.default
        left == [taken EXCEPT !.default = <<>>]
    IN  IF \/ MissingLevel(W, default, 2) \/ MissingLevel(W, custom, 1)
           \/ MapDefaultPanics(default)
        THEN Panic([W EXCEPT !.loading.handles = left, !.loading.event = FALSE],
                   "initialize_level_assets")
        ELSE [W EXCEPT !.loading.handles = left, !.loading.event = FALSE,
                       !.loading.assets = << [default |-> map_default(default),
                                              custom |-> map_custom(custom)] >>]

\* The assets of the game as shipped: default_levels "0" and "1", no custom
\* level.
ShippedLevels ==
    [ handles |-> [default |-> <<>>, custom |-> <<>>],
      given |-> [default |-> <<1, 2>>, custom |-> <<>>],
      levels |-> {1, 2}, errors |-> {}, event |-> FALSE,
      assets |-> << [default |-> map_default(<<1, 2>>), custom |-> map_custom(<<>>)] >>,
      found |-> <<>> ]

\* spawn_level's lookup of the handle and of its level: the handle, or a
\* panic at unwrap().
level_handle(W, level) ==
    LET a == W.loading.assets[1]
        hit == IF level.kind = "Default"
               THEN IF level.id + 1 \in DOMAIN a.default
                    THEN {a.default[level.id + 1]} ELSE {}
               ELSE {e.handle : e \in {e \in a.custom : e.name = level.name}}
    IN  IF hit = {} \/ hit \cap W.loading.levels = {} THEN Panic(W, "spawn_level")
        ELSE [W EXCEPT !.loading.found =
                 <<[level |-> level, handle |-> CHOOSE h \in hit : TRUE]>>]

\* ------------------------------------------------- level data and its text
\* An f32 is held in tenths.  Vec2, Vec3 and Quat are tuples of f32.
White == [variant |-> "Srgba", red |-> 10, green |-> 10, blue |-> 10, alpha |-> 10]
Red == [variant |-> "LinearRgba", red |-> 10, green |-> 0, blue |-> 0, alpha |-> 5]

\* The fields of a Particle apart from its subparticles.
Looks ==
    { [kind |-> "Normal", radius |-> 200, initial_velocity |-> <<0, -2000>>,
       color |-> White],
      [kind |-> "Killer", radius |-> 5, initial_velocity |-> <<-15, 20>>,
       color |-> Red] }

UpToTwo(S) == {<<>>} \cup {<<a>> : a \in S} \cup {<<a, b>> : a, b \in S}

\* Particle values whose subparticles nest at most d deep.
RECURSIVE ParticleTrees(_)
ParticleTrees(d) ==
    LET subs == IF d = 0 THEN {<<>>} ELSE UpToTwo(ParticleTrees(d - 1))
    IN  { [kind |-> l.kind, radius |-> l.radius,
           initial_velocity |-> l.initial_velocity, color |-> l.color,
           subparticles |-> ss] : l \in Looks, ss \in subs }

ParticleDataAt(pos, particle) == [spawn_position |-> pos, particle |-> particle]

\* ObstacleData::rectangle: the mesh of a Rectangle and a cuboid collider.
Rectangle(translation, color, hw, hh, killer) ==
    [ transform |-> [translation |-> translation, rotation |-> <<0, 0, 0, 10>>,
                     scale |-> <<10, 10, 10>>],
      flat_color_mesh |->
          [color |-> color,
           positions |-> << <<hw, hh, 0>>, <<0 - hw, hh, 0>>,
                            <<0 - hw, 0 - hh, 0>>, <<hw, 0 - hh, 0>> >>,
           indices |-> <<0, 1, 2, 0, 2, 3>>],
      collider |-> [shape |-> "Cuboid", half_extents |-> <<hw, hh>>],
      is_killer |-> killer ]

Obstacles ==
    << Rectangle(<<1000, 0, 0>>, White, 250, 250, FALSE),
       Rectangle(<<-35, 1205, 0>>, Red, 5, 1000, TRUE) >>

\* LevelData::default(): what the editor holds before anything is placed.
DefaultLevelData ==
    [name |-> "", author |-> <<>>, particles |-> <<>>, obstacles |-> <<>>,
     player_spawn |-> <<0, 0>>]

\* The levels the editor may hold; an Option is a sequence of at most one.
LevelDataModels ==
    LET trees == ParticleTrees(MaxDepth)
        leaf == CHOOSE t \in ParticleTrees(0) : t.kind = "Killer"
        still == [leaf EXCEPT !.initial_velocity = <<0, 0>>]
        forests == {<<>>}
                   \cup {<<ParticleDataAt(<<-1000, 0>>, t)>> : t \in trees}
                   \cup {<<ParticleDataAt(<<0, 0>>,
                                          [leaf EXCEPT !.subparticles = <<still>>])>>}
                   \cup {<<ParticleDataAt(<<-3000, 5>>, t),
                           ParticleDataAt(<<15, -15>>, leaf)>> : t \in trees}
        rest == { [author |-> <<>>, n |-> 0, spawn |-> <<0, 0>>],
                  [author |-> <<"me">>, n |-> 1, spawn |-> <<-5, 1000>>],
                  [author |-> <<>>, n |-> 2, spawn |-> <<-5, 1000>>],
                  [author |-> <<"me">>, n |-> 2, spawn |-> <<0, 0>>] }
    IN  { [name |-> "7", author |-> r.author, particles |-> f,
           obstacles |-> SubSeq(Obstacles, 1, r.n), player_spawn |-> r.spawn] :
             f \in forests, r \in rest }

\* PreviewIndex; an index counts from 0 as in the source.
PlayerIndex == [kind |-> "Player", index |-> 0]
ParticleIndex(i) == [kind |-> "Particle", index |-> i]
ObstacleIndex(i) == [kind |-> "Obstacle", index |-> i]

\* What the pointer does in a frame.  on: "none", "world" (a press outside
\* the editor window, at a point, on the preview entity `target` if any, with
\* a button) or a widget of the editor window (of the particle at `path`).
NoClick == [on |-> "none", path |-> <<>>, at |-> <<0, 0>>, target |-> <<>>,
            button |-> "Left"]
NoPreview == [particles |-> 0, obstacles |-> 0]
\* What the last editor_ui did: the click it saw, and the index it looked up
\* with the length of the list.
NoPass == [click |-> NoClick, lookup |-> <<>>]

\* EditorState::default(), nothing copied, nothing loaded.  events: the
\* EditorEvents handle_editor_event_clear has not read; preview: the
\* PreviewIndex components of the preview entities; pointer, schedule and
\* todo: the input of the frame of the editor screen and where the frame is.
NoEditor == [level |-> DefaultLevelData, clipboard |-> <<>>, loaded |-> <<>>,
             failed |-> FALSE,
             mode |-> "Place", placement |-> "Particle", selected |-> <<>>,
             events |-> <<>>, preview |-> NoPreview, pointer |-> NoClick,
             schedule |-> "PreUpdate", todo |-> {}, pass |-> NoPass]

\* serde's data model: what a Serialize impl hands to a format and a format
\* hands to a Deserialize impl.
Node(k, s, n, kids) == [k |-> k, s |-> s, n |-> n, kids |-> kids]
F32(x) == Node("f32", "", x, <<>>)
U32(x) == Node("u32", "", x, <<>>)
Str(s) == Node("str", s, 0, <<>>)
Bool(b) == Node("bool", "", IF b THEN 1 ELSE 0, <<>>)
UnitVariant(name) == Node("unit", name, 0, <<>>)
NewtypeVariant(name, v) == Node("newtype", name, 0, <<v>>)
TupleOf(items) == Node("tuple", "", 0, items)
SeqOf(items) == Node("seq", "", 0, items)
Field(name, v) == Node("field", name, 0, <<v>>)
Struct(fields) == Node("struct", "", 0, fields)

\* derive(Serialize): a struct with its fields by name, in declaration order.
ser_vec(v) == TupleOf([i \in DOMAIN v |-> F32(v[i])])
ser_option_string(o) ==
    IF o = <<>> THEN UnitVariant("None") ELSE NewtypeVariant("Some", Str(o[1]))
ser_Color(c) ==
    NewtypeVariant(c.variant,
        Struct(<< Field("red", F32(c.red)), Field("green", F32(c.green)),
                  Field("blue", F32(c.blue)), Field("alpha", F32(c.alpha)) >>))

RECURSIVE ser_Particle(_)
ser_Particle(p) ==
    Struct(<< Field("kind", UnitVariant(p.kind)),
              Field("radius", F32(p.radius)),
              Field("initial_velocity", ser_vec(p.initial_velocity)),
              Field("color", ser_Color(p.color)),
              Field("subparticles",
                    SeqOf([i \in DOMAIN p.subparticles |->
                              ser_Particle(p.subparticles[i])])) >>)

\* A ParticleData whose spawn_position is skipped (variant).
ser_ParticleData_skipping_position(d) ==
    Struct(<< Field("particle", ser_Particle(d.particle)) >>)

ser_ParticleData(d) ==
    Struct(<< Field("spawn_position", ser_vec(d.spawn_position)),
              Field("particle", ser_Particle(d.particle)) >>)

ser_ObstacleData(o) ==
    Struct(<< Field("transform",
                  Struct(<< Field("translation", ser_vec(o.transform.translation)),
                            Field("rotation", ser_vec(o.transform.rotation)),
                            Field("scale", ser_vec(o.transform.scale)) >>)),
              Field("flat_color_mesh",
                  Struct(<< Field("color", ser_Color(o.flat_color_mesh.color)),
                            Field("positions",
                                SeqOf([i \in DOMAIN o.flat_color_mesh.positions |->
                                          ser_vec(o.flat_color_mesh.positions[i])])),
                            Field("indices",
                                SeqOf([i \in DOMAIN o.flat_color_mesh.indices |->
                                          U32(o.flat_color_mesh.indices[i])])) >>)),
              Field("collider",
                  NewtypeVariant(o.collider.shape,
                      Struct(<< Field("half_extents",
                                      ser_vec(o.collider.half_extents)) >>))),
              Field("is_killer", Bool(o.is_killer)) >>)

ser_LevelData(l) ==
    Struct(<< Field("name", Str(l.name)),
              Field("author", ser_option_string(l.author)),
              Field("particles",
                    SeqOf([i \in DOMAIN l.particles |-> ser_ParticleData(l.particles[i])])),
              Field("obstacles",
                    SeqOf([i \in DOMAIN l.obstacles |-> ser_ObstacleData(l.obstacles[i])])),
              Field("player_spawn", ser_vec(l.player_spawn)) >>)

\* RON text as its tokens.  A number is its sign, integer digits and
\* fraction digits.
Tok(t, s, n) == [t |-> t, s |-> s, n |-> n]
Punct(c) == Tok(c, "", <<0, 0>>)
Ident(name) == Tok("ident", name, <<0, 0>>)
Magnitude(x) == IF x < 0 THEN 0 - x ELSE x
FloatText(x) ==
    Tok("float", IF x < 0 THEN "-" ELSE "", <<Magnitude(x) \div 10, Magnitude(x) % 10>>)

RECURSIVE Flatten(_)
Flatten(ss) == IF ss = <<>> THEN <<>> ELSE Head(ss) \o Flatten(Tail(ss))

\* ron::ser with PrettyConfig::default(): no struct names, a comma after
\* every field and every element.
RECURSIVE to_string_pretty(_)
to_string_pretty(v) ==
    LET Each(open, close) ==
            <<Punct(open)>>
            \o Flatten([i \in DOMAIN v.kids |->
                           to_string_pretty(v.kids[i]) \o <<Punct(",")>>])
            \o <<Punct(close)>>
    IN  CASE v.k = "f32" -> <<FloatText(v.n)>>
          [] v.k = "u32" -> <<Tok("int", "", <<v.n, 0>>)>>
          [] v.k = "str" -> <<Tok("string", v.s, <<0, 0>>)>>
          [] v.k = "bool" -> <<Ident(IF v.n = 1 THEN "true" ELSE "false")>>
          [] v.k = "unit" -> <<Ident(v.s)>>
          [] v.k = "newtype" ->
                <<Ident(v.s), Punct("(")>> \o to_string_pretty(v.kids[1])
                \o <<Punct(")")>>
          [] v.k = "field" ->
                <<Ident(v.s), Punct(":")>> \o to_string_pretty(v.kids[1])
          [] v.k = "seq" -> Each("[", "]")
          [] OTHER -> Each("(", ")")

\* ron::de: the value that starts at token i, and the token after it.
Parsed(v, next) == [ok |-> TRUE, v |-> v, next |-> next]
SyntaxError == [ok |-> FALSE, v |-> UnitVariant("error"), next |-> 0]
At(ts, i) == IF i \in DOMAIN ts THEN ts[i] ELSE Punct("eof")

RECURSIVE from_tokens(_, _)
RECURSIVE ParseEach(_, _, _, _)
ParseEach(ts, i, close, acc) ==
    IF At(ts, i).t = close THEN Parsed(acc, i + 1)
    ELSE IF At(ts, i).t = "ident" /\ At(ts, i + 1).t = ":" /\ close = ")"
    THEN LET r == from_tokens(ts, i + 2) IN
         IF ~r.ok THEN SyntaxError
         ELSE IF At(ts, r.next).t = ","
         THEN ParseEach(ts, r.next + 1, close, Append(acc, Field(At(ts, i).s, r.v)))
         ELSE IF At(ts, r.next).t = close
         THEN Parsed(Append(acc, Field(At(ts, i).s, r.v)), r.next + 1)
         ELSE SyntaxError
    ELSE LET r == from_tokens(ts, i) IN
         IF ~r.ok THEN SyntaxError
         ELSE IF At(ts, r.next).t = ","
         THEN ParseEach(ts, r.next + 1, close, Append(acc, r.v))
         ELSE IF At(ts, r.next).t = close
         THEN Parsed(Append(acc, r.v), r.next + 1)
         ELSE SyntaxError

from_tokens(ts, i) ==
    LET t == At(ts, i) IN
    CASE t.t = "float" ->
            Parsed(F32((IF t.s = "-" THEN -1 ELSE 1) * (t.n[1] * 10 + t.n[2])), i + 1)
      [] t.t = "int" -> Parsed(U32(t.n[1]), i + 1)
      [] t.t = "string" -> Parsed(Str(t.s), i + 1)
      [] t.t = "ident" ->
            IF t.s \in {"true", "false"} THEN Parsed(Bool(t.s = "true"), i + 1)
            ELSE IF At(ts, i + 1).t = "("
            THEN LET r == from_tokens(ts, i + 2) IN
                 IF r.ok /\ At(ts, r.next).t = ")"
                 THEN Parsed(NewtypeVariant(t.s, r.v), r.next + 1)
                 ELSE SyntaxError
            ELSE Parsed(UnitVariant(t.s), i + 1)
      [] t.t = "[" ->
            LET r == ParseEach(ts, i + 1, "]", <<>>) IN
            IF r.ok THEN Parsed(SeqOf(r.v), r.next) ELSE SyntaxError
      [] t.t = "(" ->
            LET r == ParseEach(ts, i + 1, ")", <<>>) IN
            IF ~r.ok THEN SyntaxError
            ELSE IF At(ts, i + 1).t = "ident" /\ At(ts, i + 2).t = ":"
            THEN Parsed(Struct(r.v), r.next)
            ELSE Parsed(TupleOf(r.v), r.next)
      [] OTHER -> SyntaxError

\* derive(Deserialize): a struct from its fields, looked up by name.
Named(v, name) == {i \in DOMAIN v.kids : v.kids[i].k = "field" /\ v.kids[i].s = name}
Get(v, name) == v.kids[CHOOSE i \in Named(v, name) : TRUE].kids[1]
HasFields(v, names) ==
    v.k = "struct" /\ \A name \in names : Cardinality(Named(v, name)) = 1

de_vec(v) == [i \in DOMAIN v.kids |-> v.kids[i].n]
de_option_string(v) == IF v.k = "unit" THEN <<>> ELSE <<v.kids[1].s>>
de_Color(v) ==
    [variant |-> v.s, red |-> Get(v.kids[1], "red").n,
     green |-> Get(v.kids[1], "green").n, blue |-> Get(v.kids[1], "blue").n,
     alpha |-> Get(v.kids[1], "alpha").n]

RECURSIVE de_Particle(_)
de_Particle(v) ==
    [kind |-> Get(v, "kind").s, radius |-> Get(v, "radius").n,
     initial_velocity |-> de_vec(Get(v, "initial_velocity")),
     color |-> de_Color(Get(v, "color")),
     subparticles |-> [i \in DOMAIN Get(v, "subparticles").kids |->
                          de_Particle(Get(v, "subparticles").kids[i])]]

de_ParticleData(v) ==
    [spawn_position |-> de_vec(Get(v, "spawn_position")),
     particle |-> de_Particle(Get(v, "particle"))]

de_ObstacleData(v) ==
    [transform |->
        [translation |-> de_vec(Get(Get(v, "transform"), "translation")),
         rotation |-> de_vec(Get(Get(v, "transform"), "rotation")),
         scale |-> de_vec(Get(Get(v, "transform"), "scale"))],
     flat_color_mesh |->
        [color |-> de_Color(Get(Get(v, "flat_color_mesh"), "color")),
         positions |-> [i \in DOMAIN Get(Get(v, "flat_color_mesh"), "positions").kids |->
                           de_vec(Get(Get(v, "flat_color_mesh"), "positions").kids[i])],
         indices |-> [i \in DOMAIN Get(Get(v, "flat_color_mesh"), "indices").kids |->
                         Get(Get(v, "flat_color_mesh"), "indices").kids[i].n]],
     collider |-> [shape |-> Get(v, "collider").s,
                   half_extents |->
                       de_vec(Get(Get(v, "collider").kids[1], "half_extents"))],
     is_killer |-> Get(v, "is_killer").n = 1]

de_LevelData(v) ==
    [name |-> Get(v, "name").s,
     author |-> de_option_string(Get(v, "author")),
     particles |-> [i \in DOMAIN Get(v, "particles").kids |->
                       de_ParticleData(Get(v, "particles").kids[i])],
     obstacles |-> [i \in DOMAIN Get(v, "obstacles").kids |->
                       de_ObstacleData(Get(v, "obstacles").kids[i])],
     player_spawn |-> de_vec(Get(v, "player_spawn"))]

\* A field the struct needs is missing, or given twice.
RECURSIVE ParticleFields(_)
ParticleFields(v) ==
    /\ HasFields(v, {"kind", "radius", "initial_velocity", "color", "subparticles"})
    /\ \A i \in DOMAIN Get(v, "subparticles").kids :
          ParticleFields(Get(v, "subparticles").kids[i])

LevelDataFields(v) ==
    /\ HasFields(v, {"name", "particles", "obstacles", "player_spawn"})
    /\ Cardinality(Named(v, "author")) <= 1
    /\ \A i \in DOMAIN Get(v, "particles").kids :
          /\ HasFields(Get(v, "particles").kids[i], {"spawn_position", "particle"})
          /\ ParticleFields(Get(Get(v, "particles").kids[i], "particle"))
    /\ \A i \in DOMAIN Get(v, "obstacles").kids :
          HasFields(Get(v, "obstacles").kids[i],
                    {"transform", "flat_color_mesh", "collider", "is_killer"})

\* handle_editor_event_print: the text of editor_state.level on the clipboard.
handle_editor_event_print(W) ==
    [W EXCEPT !.editor.clipboard = to_string_pretty(ser_LevelData(W.editor.level))]

\* LevelDataLoader::load on a file that holds the text: the asset, or an
\* error.
load(W, bytes) ==
    LET r == from_tokens(bytes, 1) IN
    IF r.ok /\ r.next = Len(bytes) + 1 /\ LevelDataFields(r.v)
    THEN [W EXCEPT !.editor.loaded = <<de_LevelData(r.v)>>]
    ELSE [W EXCEPT !.editor.failed = TRUE]

\* The file each handle is loaded from: a level of the handle's name as
\* Print writes it, and one file more that ends before its closing bracket.
MalformedLevel == Len(LevelFiles) + 1
LevelPaths == DOMAIN LevelFiles \cup {MalformedLevel}
LevelText(h) ==
    IF h \in DOMAIN LevelFiles
    THEN to_string_pretty(ser_LevelData([DefaultLevelData EXCEPT !.name = LevelFiles[h]]))
    ELSE LET whole == to_string_pretty(ser_LevelData(DefaultLevelData))
         IN  SubSeq(whole, 1, Len(whole) - 1)

AllOf(W) ==
    Range(W.loading.given.default) \cup Range(W.loading.given.custom)

\* The asset server sends LoadedWithDependencies once LevelHandles and every
\* handle under #[dependency] is loaded.
LoadedWithDependencies(W) == AllOf(W) \subseteq W.loading.levels

\* The asset server runs LevelDataLoader::load on the file of handle h.
load_level(W, h) ==
    LET r == load([W EXCEPT !.editor = NoEditor], LevelText(h))
        V == IF r.editor.failed
             THEN [W EXCEPT !.loading.errors = @ \cup {h}]
             ELSE [W EXCEPT !.loading.levels = @ \cup {h}]
    IN  [V EXCEPT !.loading.event = LoadedWithDependencies(V)]

\* ------------------------------------------------------ rigid-body lookup
\* Entities are 1..MaxEntities; child_of[e] is the entity that e's ChildOf
\* names, 0 when e has no ChildOf.  result is <<>> while the loop runs, then
\* <<0>> for None and <<e>> for Some(e).
MaxEntities == 3
Entities == 1..MaxEntities

NoHierarchy ==
    [child_of |-> <<>>, rigid_body |-> {}, start |-> 0, entity |-> 0,
     result |-> <<>>, turns |-> 0]

\* The entities from e upwards along ChildOf, at most n links.
RECURSIVE Chain(_, _, _)
Chain(child_of, e, n) ==
    IF e = 0 \/ n = 0 THEN <<>>
    ELSE <<e>> \o Chain(child_of, child_of[e], n - 1)

Acyclic(child_of) ==
    \A e \in DOMAIN child_of :
        LET c == Chain(child_of, e, Len(child_of) + 1)
        IN  \A i, j \in DOMAIN c : i # j => c[i] # c[j]

Hierarchies ==
    { [NoHierarchy EXCEPT !.child_of = c, !.rigid_body = b, !.start = e, !.entity = e] :
        c \in {c \in [Entities -> 0..MaxEntities] : Acyclic(c)},
        b \in SUBSET Entities, e \in Entities }

\* One turn of the loop of find_rigidbody_ancestor; the query matches the
\* entities that have a ChildOf.
find_rigidbody_ancestor(W) ==
    LET h == W.hierarchy
        turned == [h EXCEPT !.turns = @ + 1]
    IN  IF h.child_of[h.entity] = 0
        THEN [W EXCEPT !.hierarchy = [turned EXCEPT !.result = <<0>>]]
        ELSE IF h.entity \in h.rigid_body
        THEN [W EXCEPT !.hierarchy = [turned EXCEPT !.result = <<h.entity>>]]
        ELSE [W EXCEPT !.hierarchy = [turned EXCEPT !.entity = h.child_of[h.entity]]]

\* ------------------------------------------------------------ the session
EmptyWorld(edit) ==
    [ screen |-> "Gameplay", nextScreen |-> "none", editing |-> edit,
      editor |-> NoEditor, loading |-> ShippedLevels, hierarchy |-> NoHierarchy,
      levels |-> <<>>, particles |-> <<>>, timers |-> <<>>,
      spawnedEv |-> NoEvents, despawnedEv |-> NoEvents,
      endLevelEv |-> NoEvents, endGameEv |-> NoEvents,
      splitQ |-> <<>>, rawP |-> <<>>, rawK |-> <<>>, killQ |-> <<>>,
      cmds |-> <<>>, timeScale |-> "Normal", timeOverride |-> "None",
      physScale |-> "normal", setScaleEv |-> <<>>, setOverrideEv |-> <<>>,
      removedEv |-> <<>>,
      panic |-> "none", wrapped |-> FALSE,
      timersStarted |-> <<>>, endLevelEmitted |-> <<>>, hist |-> NoHist,
      endHandled |-> NotHandled, killHist |-> NoKill,
      restartHist |-> NoRestart,
      classLog |-> <<>>, dropped |-> NoneDropped ]

\* Entering Gameplay: from the level menu (a default level, spawned by
\* SpawnLevel) or from the editor's Play (SpawnRawLevel without a tag).
EntryWorlds ==
    {spawn_level(EmptyWorld(FALSE), DefaultTag(i)) : i \in 0..(NumDefaultLevels - 1)}
    \cup {spawn_raw_level(EmptyWorld(TRUE), d, NoTag) : d \in EditorLevels}

\* A level instance tagged Level::Custom, as SpawnLevel(Level::Custom(name))
\* leaves it once the lookup table resolves the name.
CustomLevels == { [roots |-> <<9>>, killerObstacle |-> FALSE] }

CustomEntryWorlds ==
    {spawn_raw_level(EmptyWorld(FALSE), d, CustomTag) : d \in CustomLevels}

InitFrom(Worlds, b) ==
    /\ \E W \in Worlds :
        /\ screen = W.screen
        /\ nextScreen = W.nextScreen
        /\ editing = W.editing
        /\ editor = W.editor
        /\ loading = W.loading
        /\ hierarchy = W.hierarchy
        /\ levels = W.levels
        /\ particles = W.particles
        /\ timers = W.timers
        /\ spawnedEv = W.spawnedEv
        /\ despawnedEv = W.despawnedEv
        /\ endLevelEv = W.endLevelEv
        /\ endGameEv = W.endGameEv
        /\ splitQ = W.splitQ
        /\ rawP = W.rawP
        /\ rawK = W.rawK
        /\ killQ = W.killQ
        /\ cmds = W.cmds
        /\ timeScale = W.timeScale
        /\ timeOverride = W.timeOverride
        /\ physScale = W.physScale
        /\ setScaleEv = W.setScaleEv
        /\ setOverrideEv = W.setOverrideEv
        /\ removedEv = W.removedEv
        /\ panic = W.panic
        /\ wrapped = W.wrapped
        /\ timersStarted = W.timersStarted
        /\ endLevelEmitted = W.endLevelEmitted
        /\ hist = W.hist
        /\ endHandled = W.endHandled
        /\ killHist = W.killHist
        /\ restartHist = W.restartHist
        /\ classLog = W.classLog
        /\ dropped = W.dropped
    /\ pc = "frame"
    /\ todo = {}
    /\ delta = 0
    /\ space = FALSE
    /\ restartsLeft = b.restarts
    /\ contactsLeft = b.contacts
    /\ scope = [batch |-> b.batch, bothOrders |-> b.bothOrders, stopped |-> b.stopped,
                launch |-> b.launch]
    /\ clicksLeft = b.clicks
    /\ mouse = "none"
    /\ rightHeld = FALSE

\* The input budget of the sessions checked.
\* Both handlers test a pair in both orders and return at a contact-end
\* event; here every player contact is reported player first and no
\* contact-end event is reported.
Budget == [restarts |-> MaxRestarts, contacts |-> MaxTotalContacts,
           batch |-> MaxContacts, clicks |-> 0,
           bothOrders |-> FALSE, stopped |-> FALSE, launch |-> FALSE]

Init == InitFrom(EntryWorlds, Budget)

LevelSystems ==
    {"restart", "increase", "decrease", "tick_end", "sync1", "end_level",
     "sync2", "end_game"}

TimeSystems == {"override_input", "set_scale", "set_override"}

UpdateSystems == LevelSystems \cup TimeSystems

\* Ordering inside Update: the chains of level.rs and the sync points that
\* follow a system with Commands.
\* The two chains interact only through the commands a sync point applies.
\* In a frame in which no level can be spawned or despawned (no restart, no
\* EndLevelTimer finishing, no EndLevel pending) every order gives the same
\* result, and the counting chain is run first.  restart_level changes
\* nothing unless Space was pressed: in such a frame it is run first.
Quiet ==
    /\ ~space
    /\ Unread(endLevelEv) = 0
    /\ \A k \in DOMAIN timers : ~JustFinished(timers[k], delta, EndLevelDuration)

\* The time-scale systems are ordered with none of the others.  They touch
\* what the level systems touch only through the events
\* decrease_particle_count writes and the player a sync point spawns.
\* In a frame without mouse input override_time_scale changes nothing and is
\* run first; set_time_scale and set_time_scale_override are run after the
\* level systems, reading either every unread event (they ran after
\* decrease_particle_count) or only those of the previous frame (they ran
\* before it).  In a frame with mouse input the three are run, in any
\* order, before all level systems or after all of them.
\* set_time_scale is run before set_time_scale_override unless both have
\* events to read.
BothPending == setScaleEv # <<>> /\ setOverrideEv # <<>>

Slot(sys) ==
    IF mouse = "none"
    THEN sys = "override_input" \/ LevelSystems \cap todo = {}
    ELSE \/ {"increase", "tick_end"} \subseteq todo
         \/ LevelSystems \cap todo = {}

Before(sys) ==
    IF sys \in TimeSystems
    THEN CASE sys = "set_override" /\ ~BothPending -> {"set_scale"}
           [] OTHER -> {}
    ELSE
    (IF mouse = "none" THEN {"override_input"} ELSE {})
    \cup
    (IF space \/ sys = "restart" THEN {} ELSE {"restart"})
    \cup
    CASE sys = "decrease" -> {"increase"}
      [] sys = "tick_end" -> IF "decrease" \in todo => Quiet THEN {"decrease"} ELSE {}
      [] sys = "sync1" -> {"tick_end"}
      [] sys = "end_level" -> {"sync1"}
      [] sys = "sync2" -> {"end_level"}
      [] sys = "end_game" -> {"sync2"}
      [] OTHER -> {}

\* restart_level and the counting chain touch what the other chain touches
\* only through the commands a sync point applies: what matters is which
\* sync point follows them.  In a frame that is not quiet they are run right
\* before a sync point or after the last one.
SyncNext ==
    /\ "tick_end" \notin todo
    /\ "end_level" \in todo => "sync1" \in todo
    /\ "end_game" \in todo => "sync2" \in todo

Ready(sys) ==
    /\ sys \in todo
    /\ Before(sys) \cap todo = {}
    /\ sys \in TimeSystems => Slot(sys)
    /\ sys \in {"increase", "decrease"} => SyncNext \/ ("tick_end" \in todo /\ Quiet)
    /\ (sys = "restart" /\ space) => SyncNext

\* StateTransition: the pending screen is entered; entities scoped to
\* Gameplay are despawned.
LeaveGameplay ==
    /\ pc = "frame" /\ ~crashed /\ nextScreen # "none"
    /\ SetWorld([World EXCEPT !.screen = nextScreen, !.nextScreen = "none",
                              !.levels = <<>>, !.particles = <<>>, !.timers = <<>>,
                              !.restartHist = NoRestart,
                              !.timersStarted = <<>>, !.endLevelEmitted = <<>>])
    /\ pc' = "left"
    /\ UNCHANGED << todo, delta, space, restartsLeft, contactsLeft, scope,
                    mouse, rightHeld, clicksLeft >>

\* First: event buffers are rotated; the frame's inputs are fixed.
BeginFrame ==
    /\ pc = "frame" /\ ~crashed /\ nextScreen = "none"
    /\ \E dt \in Deltas, sp \in BOOLEAN, m \in {"none", "pressed", "released", "stretch"} :
        /\ sp => restartsLeft > 0
        /\ m = "pressed" => ~rightHeld /\ clicksLeft > 0
        /\ m = "stretch" => scope.launch /\ clicksLeft > 0
        /\ m = "released" => rightHeld
        /\ delta' = dt
        /\ space' = sp
        /\ mouse' = m
        /\ rightHeld' = IF m \in {"none", "stretch"} THEN rightHeld ELSE m = "pressed"
        /\ restartsLeft' = IF sp THEN restartsLeft - 1 ELSE restartsLeft
        /\ clicksLeft' = IF m \in {"pressed", "stretch"} THEN clicksLeft - 1 ELSE clicksLeft
        /\ todo' = UpdateSystems \cup (IF m = "stretch" THEN {"drag_input"} ELSE {})
        /\ LET W == [World EXCEPT
                       !.spawnedEv = AgeCount(@), !.despawnedEv = AgeCount(@),
                       !.endLevelEv = AgeCount(@), !.endGameEv = AgeCount(@),
                       !.splitQ = AgeQueue(@), !.rawP = AgeQueue(@),
                       !.rawK = AgeQueue(@), !.killQ = AgeQueue(@),
                       !.setScaleEv = AgeQueue(@), !.setOverrideEv = AgeQueue(@),
                       !.removedEv = AgeQueue(@),
                       !.restartHist = IF @.g # 0 /\ Unread(spawnedEv) = 0
                                       THEN NoRestart ELSE @,
                       !.hist = NoHist, !.endHandled = NotHandled,
                       !.classLog = <<>>,
                       !.dropped = [particle |-> Expired(rawP), killer |-> Expired(rawK)]]
           IN  SetWorld(W)
    /\ pc' = "timers"
    /\ UNCHANGED << contactsLeft, scope >>

\* The sync point that ends Update.
EndOfUpdate(W) == [ApplyDeferred(W) EXCEPT !.killHist = NoKill]

\* A frame whose Update schedule only counts and ticks: no input, exactly
\* one level instance, no level completed, no EndLevelTimer finishing, no
\* EndLevel, EndGame or time-scale event to read, no underflow.  Every order
\* of its systems gives the same result.
Calm(W) ==
    /\ ~space /\ mouse = "none"
    /\ Cardinality(LevelEntities(W)) = 1
    /\ \A g \in DOMAIN W.levels :
          W.levels[g].state = "Playing" =>
              W.levels[g].count + Unread(W.spawnedEv) - Unread(W.despawnedEv) > 0
    /\ \A k \in DOMAIN W.timers : ~JustFinished(W.timers[k], delta, EndLevelDuration)
    /\ Unread(W.endLevelEv) = 0 /\ Unread(W.endGameEv) = 0
    /\ W.setScaleEv = <<>> /\ W.setOverrideEv = <<>>

\* The Update schedule of a calm frame, run as one step.
\* Each system runs on the world the previous one left (the sets hold one
\* world each).
UpdateSchedule(W) ==
    LET W1 == {restart_level(V, space) : V \in {override_time_scale(W, mouse)}}
        W2 == {decrease_particle_count(V, TRUE) :
                  V \in {increase_particle_count(U) : U \in W1}}
        W3 == {ApplyDeferred(V) : V \in {tick_end_level_timer(U, delta) : U \in W2}}
        W4 == {ApplyDeferred(V) : V \in {end_level(U) : U \in W3}}
        W5 == {set_time_scale_override(V, FALSE) :
                  V \in {set_time_scale(U, FALSE) : U \in {end_game(T) : T \in W4}}}
    IN  CHOOSE V \in {EndOfUpdate(U) : U \in W5} : TRUE

TickInvincibility ==
    /\ pc = "timers" /\ ~crashed
    /\ \E W \in {tick_invincibility(World, delta)} :
          IF Calm(W)
          THEN /\ \E W1 \in {UpdateSchedule(W)} : SetWorld(W1)
               /\ pc' = "physics"
               /\ todo' = {}
               /\ delta' = 0
          ELSE /\ SetWorld(W)
               /\ pc' = "update"
               /\ UNCHANGED << todo, delta >>
    /\ UNCHANGED << space, restartsLeft, contactsLeft, scope,
                    mouse, rightHeld, clicksLeft >>

RunUpdate(sys, W) ==
    /\ pc = "update" /\ ~crashed /\ Ready(sys)
    /\ SetWorld(W)
    /\ todo' = todo \ {sys}
    /\ UNCHANGED << pc, delta, space, restartsLeft, contactsLeft, scope,
                    mouse, rightHeld, clicksLeft >>

RestartLevel == RunUpdate("restart", restart_level(World, space))
IncreaseParticleCount == RunUpdate("increase", increase_particle_count(World))
DecreaseParticleCount ==
    \E overflowChecks \in BOOLEAN :
        /\ overflowChecks => ~wrapped
        /\ RunUpdate("decrease", decrease_particle_count(World, overflowChecks))
TickEndLevelTimer == RunUpdate("tick_end", tick_end_level_timer(World, delta))
SyncAfterTick == RunUpdate("sync1", ApplyDeferred(World))
EndLevel == RunUpdate("end_level", end_level(World))
SyncAfterEndLevel == RunUpdate("sync2", ApplyDeferred(World))
EndGame == RunUpdate("end_game", end_game(World))
OverrideTimeScale == RunUpdate("override_input", override_time_scale(World, mouse))
HandleDragInput == RunUpdate("drag_input", handle_drag_input(World, mouse = "stretch"))
SetTimeScale ==
    \E early \in BOOLEAN :
        /\ early => mouse = "none"
        /\ RunUpdate("set_scale", set_time_scale(World, early))
SetTimeScaleOverride ==
    \E early \in BOOLEAN :
        /\ early => mouse = "none"
        /\ RunUpdate("set_override", set_time_scale_override(World, early))

Stage(from, to, W) ==
    /\ pc = from /\ ~crashed
    /\ SetWorld(W)
    /\ pc' = to
    /\ UNCHANGED << todo, delta, space, restartsLeft, contactsLeft, scope,
                    mouse, rightHeld, clicksLeft >>

UpdateEnd ==
    /\ pc = "update" /\ ~crashed /\ todo = {}
    /\ SetWorld(EndOfUpdate(World))
    /\ pc' = "physics"
    /\ delta' = 0
    /\ space' = FALSE
    /\ mouse' = "none"
    /\ UNCHANGED << todo, restartsLeft, contactsLeft, scope,
                    rightHeld, clicksLeft >>

\* PostUpdate, from the collision handlers to the end of the schedule.
PostUpdate(W) ==
    ApplyDeferred(kill(split_particle(ApplyDeferred(
        killer_collision_handler(particle_collision_handler(W))))))

\* No system of PostUpdate has an event to read.
PostUpdateIdle(W) ==
    W.rawP = <<>> /\ W.rawK = <<>> /\ W.splitQ = <<>> /\ W.killQ = <<>>

\* The physics step reports the contacts of this frame.  When that leaves
\* the systems of PostUpdate nothing to read, the schedule is run in one step.
PhysicsStep ==
    /\ pc = "physics" /\ ~crashed
    /\ \E batch \in ContactBatches(World, scope, Min(scope.batch, contactsLeft)) :
        LET new == Stamp(World, batch, contactsLeft)
            W == [World EXCEPT !.rawP = @ \o new, !.rawK = @ \o new] IN
        /\ IF PostUpdateIdle(W)
           THEN SetWorld(PostUpdate(W)) /\ pc' = "frame"
           ELSE SetWorld(W) /\ pc' = "classify"
        /\ contactsLeft' = contactsLeft - Len(batch)
        /\ UNCHANGED << todo, delta, space, restartsLeft, scope,
                        mouse, rightHeld, clicksLeft >>

ParticleCollisionHandler ==
    Stage("classify", "classify_killer", particle_collision_handler(World))
KillerCollisionHandler ==
    Stage("classify_killer", "observers", killer_collision_handler(World))
SyncAfterHandlers == Stage("observers", "split", ApplyDeferred(World))
SplitParticle == Stage("split", "kill", split_particle(World))
Kill == Stage("kill", "post", kill(World))
PostUpdateEnd == Stage("post", "frame", ApplyDeferred(World))

Next ==
    \/ LeaveGameplay
    \/ BeginFrame
    \/ TickInvincibility
    \/ RestartLevel
    \/ IncreaseParticleCount
    \/ DecreaseParticleCount
    \/ TickEndLevelTimer
    \/ SyncAfterTick
    \/ EndLevel
    \/ SyncAfterEndLevel
    \/ EndGame
    \/ OverrideTimeScale
    \/ SetTimeScale
    \/ SetTimeScaleOverride
    \/ UpdateEnd
    \/ PhysicsStep
    \/ ParticleCollisionHandler
    \/ KillerCollisionHandler
    \/ SyncAfterHandlers
    \/ SplitParticle
    \/ Kill
    \/ PostUpdateEnd

Spec == Init /\ [][Next]_vars

\* The same session, entered also with a level addressed by name.
InitCustom == InitFrom(EntryWorlds \cup CustomEntryWorlds, Budget)
SpecCustom == InitCustom /\ [][Next]_vars

\* Sessions without restart in which the physics step reports a pair in
\* either order, and contact-end events.
ContactsBudget == [restarts |-> 0, contacts |-> MaxTotalContacts,
                   batch |-> MaxContacts, clicks |-> 0,
                   bothOrders |-> TRUE, stopped |-> TRUE, launch |-> FALSE]
InitContacts == InitFrom(EntryWorlds, ContactsBudget)
SpecContacts == InitContacts /\ [][Next]_vars

\* Sessions of one crowded physics step: up to MaxBatch contact events, which
\* one step may report together.
BatchBudget == [restarts |-> 0, contacts |-> MaxBatch,
                batch |-> MaxBatch, clicks |-> 0,
                bothOrders |-> FALSE, stopped |-> TRUE, launch |-> FALSE]
InitBatch == InitFrom(EntryWorlds, BatchBudget)
SpecBatch == InitBatch /\ [][Next]_vars

\* Sessions with the right mouse button and no restart; the editor can also
\* hand over a level of one leaf particle and a killer obstacle.
InputBudget == [restarts |-> 0, contacts |-> MaxTotalContacts,
                batch |-> MaxContacts, clicks |-> MaxClicks,
                bothOrders |-> FALSE, stopped |-> FALSE, launch |-> FALSE]
InputWorlds ==
    EntryWorlds
    \cup {spawn_raw_level(EmptyWorld(TRUE),
                          [roots |-> <<9>>, killerObstacle |-> TRUE], NoTag)}
InitInput == InitFrom(InputWorlds, InputBudget)
SpecInput == InitInput /\ [][Next]_vars

\* The running app: every system of a schedule runs in each frame, the
\* schedules of a frame run to their end, and a frame follows a frame for as
\* long as the app has not panicked and the session is in Gameplay.
Fairness ==
    /\ WF_vars(LeaveGameplay)
    /\ WF_vars(BeginFrame)
    /\ WF_vars(TickInvincibility)
    /\ WF_vars(RestartLevel)
    /\ WF_vars(IncreaseParticleCount)
    /\ WF_vars(DecreaseParticleCount)
    /\ WF_vars(TickEndLevelTimer)
    /\ WF_vars(SyncAfterTick)
    /\ WF_vars(EndLevel)
    /\ WF_vars(SyncAfterEndLevel)
    /\ WF_vars(EndGame)
    /\ WF_vars(OverrideTimeScale)
    /\ WF_vars(SetTimeScale)
    /\ WF_vars(SetTimeScaleOverride)
    /\ WF_vars(UpdateEnd)
    /\ WF_vars(PhysicsStep)
    /\ WF_vars(ParticleCollisionHandler)
    /\ WF_vars(KillerCollisionHandler)
    /\ WF_vars(SyncAfterHandlers)
    /\ WF_vars(SplitParticle)
    /\ WF_vars(Kill)
    /\ WF_vars(PostUpdateEnd)
FairBudget == [restarts |-> 0, contacts |-> MaxContacts,
               batch |-> MaxContacts, clicks |-> 0,
               bothOrders |-> FALSE, stopped |-> FALSE, launch |-> FALSE]
InitFair == InitFrom(EntryWorlds, FairBudget)
FairSpec == InitFair /\ [][Next]_vars /\ Fairness

TypeOK ==
    /\ screen \in {"Gameplay", "Editor", "Levels", "End"}
    /\ crashed \in BOOLEAN
    /\ \A g \in DOMAIN levels : levels[g].state \in {"Playing", "Ended"}

\* ======================================================================
\* Properties
\* ======================================================================

\* split_particle has finished its run of this frame and the commands it
\* queued have been applied, or the run ended in a panic.
SplitRunOver == pc = "frame" \/ (pc = "kill" /\ crashed)

\* Events of the last run that named a Vulnerable instance.
VulnerableHandled ==
    {i \in DOMAIN hist.log : hist.log[i].outcome \in {"split", "noplayer"}}

RECURSIVE SumLen(_, _)
SumLen(log, I) ==
    IF I = {} THEN 0
    ELSE LET i == CHOOSE i \in I : TRUE
         IN  Len(log[i].children) + SumLen(log, I \ {i})

\* Instances that exist now and did not when the run started.
NewInstances == DOMAIN particles \ hist.live

\* Particle-count change the run has reported: ParticleSpawned minus
\* ParticleDespawned written since it started.
ReportedChange ==
    (spawnedEv.new - hist.spawned) - (despawnedEv.new - hist.despawned)

ExpectedChange ==
    SumLen(hist.log, VulnerableHandled)
    - Cardinality({hist.log[i].p : i \in VulnerableHandled})

\* C1: every event split_particle handles for a Vulnerable instance with
\* n > 0 children spawns one new instance per child (n in all), destroys the
\* parent, and the count change reported for the level is n - 1 (summed over
\* the events of the run).
C1_SplitSpawnsChildren ==
    SplitRunOver =>
        \A i \in VulnerableHandled :
            LET h == hist.log[i] IN
            Len(h.children) > 0 =>
                /\ \A c \in Range(h.children) : <<h.p[1], c>> \in NewInstances
                /\ Cardinality(NewInstances) = SumLen(hist.log, VulnerableHandled)
                /\ h.p \notin DOMAIN particles
                /\ ReportedChange = ExpectedChange

\* C2: every event split_particle handles for a Vulnerable instance with no
\* children spawns nothing for it, destroys the instance, and the count
\* change reported for it is -1.
C2_SplitLeafRemoves ==
    SplitRunOver =>
        \A i \in VulnerableHandled :
            LET h == hist.log[i] IN
            h.children = <<>> =>
                /\ \A id \in NewInstances :
                      \E j \in VulnerableHandled :
                          id[1] = hist.log[j].p[1] /\ id[2] \in Range(hist.log[j].children)
                /\ h.p \notin DOMAIN particles
                /\ h.p \in hist.live
                /\ ReportedChange = ExpectedChange

\* The same two statements for runs in which the player exists.
C1_WithPlayer ==
    SplitRunOver =>
        \A i \in VulnerableHandled :
            LET h == hist.log[i] IN
            (Len(h.children) > 0 /\ h.outcome = "split") =>
                /\ \A c \in Range(h.children) : <<h.p[1], c>> \in NewInstances
                /\ Cardinality(NewInstances) = SumLen(hist.log, VulnerableHandled)
                /\ h.p \notin DOMAIN particles
                /\ ReportedChange = ExpectedChange

C2_WithPlayer ==
    SplitRunOver =>
        \A i \in VulnerableHandled :
            LET h == hist.log[i] IN
            (h.children = <<>> /\ h.outcome = "split") =>
                /\ h.p \notin DOMAIN particles
                /\ ReportedChange = ExpectedChange

\* Live particle instances a level instance owns.
Owned(g) == {id \in DOMAIN particles : id[1] = g}

\* Nothing is pending for the bookkeeping systems: no unread ParticleSpawned
\* or ParticleDespawned event, and no queued command that would write one.
BookkeepingSettled ==
    /\ Unread(spawnedEv) = 0
    /\ Unread(despawnedEv) = 0
    /\ cmds = <<>>

\* C3: once increase_particle_count and decrease_particle_count have consumed
\* every pending ParticleSpawned / ParticleDespawned event, the count of a
\* Playing level instance equals the number of live particle instances it
\* owns.
C3_CountIsExact ==
    BookkeepingSettled =>
        \A g \in DOMAIN levels :
            levels[g].state = "Playing" => levels[g].count = Cardinality(Owned(g))

\* C4: in every reachable state the particle count of every level instance
\* is >= 0 (the usize never wraps below zero).
C4_CountNonNegative == \A g \in DOMAIN levels : levels[g].count >= 0

\* EndLevelTimer spawns queued for a level instance and not yet applied.
PendingStarts(g) ==
    {i \in DOMAIN cmds : cmds[i].op = "startTimer" /\ cmds[i].a = g}

\* EndLevelTimers started for a level instance so far, queued ones included.
TimersStarted(g) == timersStarted[g] + Cardinality(PendingStarts(g))

\* C5: at most one EndLevelTimer is ever started for a level instance.
C5_AtMostOneTimer == \A g \in DOMAIN levels : TimersStarted(g) <= 1

\* C5 (case): one run of decrease_particle_count summed two decrements,
\* found the count at 0 and queued the timer.
C5_Witness_TwoDecrements ==
    \E i \in DOMAIN cmds :
        /\ cmds[i].op = "startTimer" /\ cmds[i].b >= 2
        /\ cmds[i].a \in DOMAIN levels /\ TimersStarted(cmds[i].a) = 1

\* C6: the completion delay of a level instance is started if and only if
\* its particle count has reached 0, and a level instance that still owns a
\* live particle has not started it.
C6_DelayIffCountZero ==
    \A g \in DOMAIN levels :
        /\ TimersStarted(g) >= 1 <=> (levels[g].state = "Ended" /\ levels[g].count = 0)
        /\ TimersStarted(g) >= 1 => Owned(g) = {}

\* EndLevelTimers of a level instance.
TimersOf(g) == {k \in DOMAIN timers : k[1] = g}

\* C7 (as claimed): a level whose count has reached 0 stays Playing during
\* the completion delay and is Ended only once the delay has elapsed and
\* EndLevel has been emitted.
C7_PlayingThroughDelay ==
    \A g \in DOMAIN levels :
        levels[g].state = "Ended" => endLevelEmitted[g] >= 1

\* C7 (amended): the level is Ended from the run of decrease_particle_count
\* that finds its count at 0 and starts the completion delay; it stays Ended
\* through the delay, and EndLevel is emitted when, and only when, the
\* EndLevelTimer has run its full duration.
C7_EndedThroughDelay ==
    \A g \in DOMAIN levels :
        /\ TimersStarted(g) >= 1 => levels[g].state = "Ended"
        /\ endLevelEmitted[g] >= 1 => levels[g].state = "Ended"
        /\ \A k \in TimersOf(g) :
              (timers[k] >= EndLevelDuration) <=> (endLevelEmitted[g] >= 1)
        /\ PendingStarts(g) # {} => endLevelEmitted[g] = 0

\* C7 (case): a level whose count was found at 0 has been Ended through the
\* whole delay and its EndLevel has just been written.
C7_Witness_DelayElapsed ==
    \E g \in DOMAIN levels :
        /\ levels[g].state = "Ended" /\ levels[g].count = 0
        /\ endLevelEmitted[g] = 1
        /\ \E k \in TimersOf(g) : timers[k] = EndLevelDuration

\* A level instance all of whose particles are leaves.
AllLeaf(g) ==
    /\ levels[g].data.roots # <<>>
    /\ \A r \in Range(levels[g].data.roots) : Subparticles(r) = <<>>

EndLevelApplied ==
    /\ endHandled.branch # "none"
    /\ pc # "update" \/ "sync2" \notin todo

\* C9: when end_level consumes EndLevel for an instance tagged
\* Level::Default(id): if level id + 1 exists, it is spawned and the handled
\* instance destroyed, leaving exactly one level instance; otherwise EndGame
\* is written and the session goes to the End screen.
C9_AdvanceOrEndGame ==
    (EndLevelApplied /\ endHandled.tag.kind = "Default") =>
        IF endHandled.tag.id + 1 < NumDefaultLevels
        THEN pc # "left" =>
                /\ Cardinality(DOMAIN levels) = 1
                /\ \A g \in DOMAIN levels :
                      levels[g].tag = DefaultTag(endHandled.tag.id + 1)
        ELSE /\ endHandled.branch = "endgame"
             /\ Unread(endGameEv) >= 1 \/ nextScreen = "End" \/ screen = "End"
             /\ (pc # "update" \/ "end_game" \notin todo) =>
                    (nextScreen = "End" \/ screen = "End")
             /\ pc = "left" => screen = "End"

TimeScaleApplied == pc = "update" /\ {"set_scale", "set_override"} \cap todo = {}

\* C11: a run of kill that reads a KillEvent queues the despawn of the player
\* it names and leaves every level's state and particle count as they were;
\* at the end of the schedule the player is gone; and from the next frame's
\* run of set_time_scale and set_time_scale_override on, or once the session
\* has left Gameplay, the override is cleared and the automatic time scale is
\* Normal.
C11_KillClearsOverride ==
    \A g \in killHist.players :
        /\ pc = "post" =>
              \E i \in DOMAIN cmds : cmds[i].op = "despawnPlayer" /\ cmds[i].a = g
        /\ pc \in {"post", "frame"} =>
              \A h \in DOMAIN killHist.before :
                  /\ h \in DOMAIN levels
                  /\ killHist.before[h] = << levels[h].state, levels[h].count >>
        /\ pc \notin {"post", "kill"} => g \notin PlayerEntities(World)
        /\ (TimeScaleApplied \/ pc = "left") =>
              /\ timeOverride = "None"
              /\ timeScale = "Normal"

\* The same statement for sessions that stay in Gameplay, with the scale of
\* the physics step.
C11_WhileInGameplay ==
    \A g \in killHist.players :
        /\ pc = "post" =>
              \E i \in DOMAIN cmds : cmds[i].op = "despawnPlayer" /\ cmds[i].a = g
        /\ pc \in {"post", "frame"} =>
              \A h \in DOMAIN killHist.before :
                  /\ h \in DOMAIN levels
                  /\ killHist.before[h] = << levels[h].state, levels[h].count >>
        /\ pc \notin {"post", "kill"} => g \notin PlayerEntities(World)
        /\ TimeScaleApplied =>
              /\ timeOverride = "None"
              /\ timeScale = "Normal"
              /\ physScale = "normal"

\* Contacts of this frame for which killer_collision_handler wrote a
\* KillEvent naming a Killer-kind particle instance as the killer.
KillerParticleContacts ==
    {i \in DOMAIN classLog :
        /\ classLog[i].h = "killer"
        /\ classLog[i].sem.t = "Kill"
        /\ classLog[i].sem.y.t = "particle"}

\* Runs of split_particle on an event that comes from contact event id.
SplitsFrom(id) == {j \in DOMAIN hist.log : hist.log[j].src.id = id}

\* C12: a contact between the player and a live Killer-kind particle
\* instance destroys the player and decomposes nothing: no event that comes
\* from the contact makes split_particle decompose an instance, and at the
\* end of the schedule the player is gone and the Killer instance is still
\* there.
C12_KillerContactKeepsCount ==
    \A i \in KillerParticleContacts :
        LET c == classLog[i] IN
        /\ \A j \in SplitsFrom(c.ev.id) : hist.log[j].outcome # "split"
        /\ pc = "frame" =>
              /\ c.sem.x.e[1] \notin PlayerEntities(World)
              /\ c.sem.y.e \in DOMAIN particles
\* Entries of the frame's log in which a handler emitted a semantic event.
Emitting == {i \in DOMAIN classLog : classLog[i].sem # NoSem}

\* C13: no contact-begin event yields more than one semantic event, counting
\* what particle_collision_handler and killer_collision_handler both make of
\* it.
C13_OneEventPerContact ==
    \A i, j \in Emitting :
        classLog[i].ev.id = classLog[j].ev.id => i = j
\* Contact-begin events particle_collision_handler classified in this frame.
ParticleClassified ==
    {i \in DOMAIN classLog :
        /\ classLog[i].h = "particle"
        /\ classLog[i].ev.kind = "Started"
        /\ classLog[i].resolved}

\* The trigger queued for contact event id, while the queue still holds it.
Triggered(id, op, a, b) ==
    \E k \in DOMAIN cmds :
        /\ cmds[k].src.id = id /\ cmds[k].op = op
        /\ cmds[k].a = a /\ cmds[k].b = b

\* C14: for a pair of resolved bodies, particle_collision_handler emits
\* PlayerParticleCollision naming the particle when one side is the player
\* and the other a particle, in either order; ParticleParticleCollision
\* naming both, in the order of the pair, when both are particles; and
\* nothing for any other pair.
C14_ClassifiedByEntities ==
    \A i \in ParticleClassified :
        LET ev == classLog[i].ev
            sem == classLog[i].sem
            queued == pc = "classify_killer"
        IN  CASE ev.a.t = "player" /\ ev.b.t = "particle" ->
                    /\ sem = Sem("PlayerParticle", ev.b, NoBody)
                    /\ queued => Triggered(ev.id, "triggerPlayerParticle", ev.b.e, 0)
              [] ev.b.t = "player" /\ ev.a.t = "particle" ->
                    /\ sem = Sem("PlayerParticle", ev.a, NoBody)
                    /\ queued => Triggered(ev.id, "triggerPlayerParticle", ev.a.e, 0)
              [] ev.a.t = "particle" /\ ev.b.t = "particle" ->
                    /\ sem = Sem("ParticleParticle", ev.a, ev.b)
                    /\ queued =>
                          Triggered(ev.id, "triggerParticleParticle", ev.a.e, ev.b.e)
              [] OTHER ->
                    /\ sem = NoSem
                    /\ \A k \in DOMAIN cmds : cmds[k].src.id # ev.id

\* C14 (case): a pair reported particle first, player second, has been
\* classified and the trigger naming the particle is queued.
C14_Witness_ParticleFirst ==
    \E i \in ParticleClassified :
        /\ classLog[i].ev.a.t = "particle" /\ classLog[i].ev.b.t = "player"
        /\ classLog[i].sem.t = "PlayerParticle"
        /\ pc = "classify_killer"
        /\ Triggered(classLog[i].ev.id, "triggerPlayerParticle", classLog[i].ev.a.e, 0)
\* Contact-begin events a handler looked at in this frame of which a
\* collider no longer resolves to a rigid body.
Unresolved ==
    {i \in DOMAIN classLog :
        classLog[i].ev.kind = "Started" /\ ~classLog[i].resolved}

\* The handler's run of this frame is over.
HandlerDone(h) ==
    IF h = "particle" THEN pc # "classify"
    ELSE pc \notin {"classify", "classify_killer"}

\* What the handler has left unread.
LeftUnread(h) == IF h = "particle" THEN rawP ELSE rawK

\* C15: a contact event of which a collider has no rigid-body ancestor is
\* dropped without a panic, and the handler goes on with the next event: its
\* run does not end at that event while later events of the batch are unread.
C15_UnresolvedDropped ==
    /\ panic # "particle_collision_handler"
    /\ \A i \in Unresolved :
          LET h == classLog[i].h IN
          (HandlerDone(h) /\ \A j \in DOMAIN classLog : classLog[j].h = h => j <= i)
              => LeftUnread(h) = <<>>
\* Split events of this frame's run whose particle was gone when
\* split_particle looked it up.
StaleSplits == {j \in DOMAIN hist.log : hist.log[j].outcome = "missing"}

\* Contact events particle_collision_handler looked at in this frame that
\* name a particle instance already removed.
StaleContacts ==
    {i \in Unresolved :
        /\ classLog[i].h = "particle"
        /\ \E side \in {classLog[i].ev.a, classLog[i].ev.b} :
              side.t = "particle" /\ side.e \notin DOMAIN particles}

\* C16: an event that names a particle instance already removed is handled
\* without a panic, and a second event of one run for the same instance
\* spawns no children.
C16_StaleTargetGraceful ==
    /\ StaleSplits # {} => panic # "split_particle"
    /\ StaleContacts # {} => panic # "particle_collision_handler"
    /\ \A j, k \in DOMAIN hist.log :
          (j < k /\ hist.log[j].p = hist.log[k].p /\ hist.log[j].outcome = "split")
              => hist.log[k].children = <<>>
\* A contact-begin event between two bodies that still exist, of a pair
\* particle_collision_handler (killer_collision_handler) has an event for.
LiveContact(ev) ==
    ev.kind = "Started" /\ BodyExists(World, ev.a) /\ BodyExists(World, ev.b)

ParticlePair(ev) ==
    \/ {ev.a.t, ev.b.t} = {"player", "particle"}
    \/ {ev.a.t, ev.b.t} = {"particle"}

KillerPair(ev) ==
    \/ HasKiller(ev.a) /\ ev.b.t = "player"
    \/ HasKiller(ev.b) /\ ev.a.t = "player"

\* C17: a contact-begin event a handler left unread is not lost: no event of
\* a player-particle or particle-particle pair is dropped unread by
\* particle_collision_handler, and none of a killer-player pair by
\* killer_collision_handler, while both bodies still exist.
C17_DeferredNotLost ==
    pc = "timers" =>
        /\ \A i \in DOMAIN dropped.particle :
              ~(LiveContact(dropped.particle[i]) /\ ParticlePair(dropped.particle[i]))
        /\ \A i \in DOMAIN dropped.killer :
              ~(LiveContact(dropped.killer[i]) /\ KillerPair(dropped.killer[i]))
\* Runs of split_particle that decomposed their particle.
Decomposed == {j \in DOMAIN hist.log : hist.log[j].outcome = "split"}

\* C18: an instance is never decomposed by a contact that began while it
\* was Immune: no run of split_particle splits a particle on an event that
\* comes from a contact event raised while the particle carried Invincible.
C18_ImmuneNeverDecomposed ==
    \A j \in Decomposed : hist.log[j].p \notin hist.log[j].src.immune
\* C19: an Immune instance never triggers a decomposition: no run of
\* split_particle splits a particle that was Vulnerable when its contact
\* began on an event that comes from a contact with an Immune particle.
C19_ImmuneNeverTriggers ==
    \A j \in Decomposed :
        hist.log[j].p \notin hist.log[j].src.immune => hist.log[j].src.immune = {}
\* The nodes of the forest a split gives birth to, and their instances in
\* the level instance a session without restart enters.
SplitBorn == UNION {Range(Subparticles(n)) : n \in 1..9}
Instances == {1} \X SplitBorn

Immune(id) == id \in DOMAIN particles /\ particles[id].inv # NoTimer
Vulnerable(id) == id \in DOMAIN particles /\ particles[id].inv = NoTimer

\* One step of a timer that stays: it is left alone, or tick_invincibility
\* adds the frame's delta to it, or it is removed having run its full
\* duration (in the step of the tick that completes it, when the frame's
\* Update schedule is one step).
TimerRuns ==
    \A id \in DOMAIN particles \cap DOMAIN particles' :
        LET before == particles[id].inv
            after == particles'[id].inv
        IN  before # NoTimer =>
                \/ after = before
                \/ /\ pc = "timers"
                   /\ after = Min(before + delta, InvincibilityDuration)
                \/ /\ after = NoTimer
                   /\ \/ before = InvincibilityDuration
                      \/ pc = "timers" /\ before + delta >= InvincibilityDuration

\* C20: a started invincibility timer always completes: every Immune
\* instance becomes Vulnerable unless it is destroyed or the app panics, and
\* until then no step moves its timer but tick_invincibility adding the
\* frame's delta, nor removes it before its full duration.
C20_TimerCompletes ==
    /\ [](\A id \in DOMAIN particles : Immune(id) => id \in Instances)
    /\ [][TimerRuns]_vars
    /\ \A id \in Instances :
          Immune(id) ~> (id \notin DOMAIN particles \/ Vulnerable(id) \/ crashed)

\* C20 (case): a split-born instance has outlived its timer.
C20_Witness_Completed ==
    \E id \in DOMAIN particles :
        /\ id[2] \in SplitBorn
        /\ Vulnerable(id)
        /\ ~crashed
\* C20 (auxiliary): with restarts and further contacts too, a timer is only
\* moved by tick_invincibility and only removed at its full duration.
C20_NeverExtended == [][TimerRuns]_vars
\* The tick of this step brings the timer of id to its full duration.
Finishing(id) ==
    /\ pc = "timers"
    /\ Immune(id)
    /\ JustFinished(particles[id].inv, delta, InvincibilityDuration)

\* The InvincibleRemoved events this step writes (Events::update runs in the
\* step that begins a frame and writes none).
NewRemoved ==
    IF pc = "frame" THEN <<>>
    ELSE SubSeq(removedEv', Len(removedEv) + 1, Len(removedEv'))

NotifiedOnce ==
    /\ pc # "frame" => SubSeq(removedEv', 1, Len(removedEv)) = removedEv
    /\ \A id \in DOMAIN particles \cup {NewRemoved[i].p : i \in DOMAIN NewRemoved} :
          Cardinality({i \in DOMAIN NewRemoved : NewRemoved[i].p = id})
              = IF Finishing(id) THEN 1 ELSE 0

\* A finished timer is gone at the sync point that ends Update: outside
\* Update no instance carries one, inside its removal is queued.
FinishedIsRemoved ==
    \A id \in DOMAIN particles :
        particles[id].inv = InvincibilityDuration =>
            /\ pc = "update"
            /\ \E k \in DOMAIN cmds : cmds[k].op = "removeInvincible" /\ cmds[k].a = id

GroupsFollowMarker ==
    \A id \in DOMAIN particles :
        particles[id].groups = IF Immune(id) THEN ImmuneGroups ELSE VulnerableGroups

BornThisTick ==
    UNION {{<<hist.log[j].p[1], hist.log[j].children[k]>> :
                k \in DOMAIN hist.log[j].children} : j \in Decomposed}

\* C22: at the end of the tick of a decomposition every child it spawned is
\* Immune with nothing of its duration elapsed, and the duration is not
\* zero.
C22_ChildImmuneAtEndOfTick ==
    /\ InvincibilityDuration > 0
    /\ pc = "frame" =>
          \A id \in BornThisTick \cap DOMAIN particles :
              Immune(id) /\ particles[id].inv = 0

\* C22 (case): a tick has ended in which a decomposition spawned a child.
C22_Witness_ChildBorn ==
    /\ pc = "frame" /\ ~crashed
    /\ BornThisTick \cap DOMAIN particles # {}
\* The documented class of a rigid-body collider: terrain (group_1), the
\* player and the particles carrying Invincible (group_2), the other
\* particles (group_3).
BodyColliders == {c \in Colliders(World) : ~c.sensor}
Sensors == {c \in Colliders(World) : c.sensor}

GroupOf(c) ==
    CASE c.kind \in {"terrain", "killer_terrain"} -> 1
      [] c.kind = "player" -> 2
      [] c.kind = "particle" -> IF Immune(c.owner) THEN 2 ELSE 3

\* group_1 with everything, group_2 with group_1 and group_2, group_3 only
\* with group_1.
Documented(c1, c2) ==
    \/ 1 \in {GroupOf(c1), GroupOf(c2)}
    \/ GroupOf(c1) = 2 /\ GroupOf(c2) = 2

\* C23: in every reachable state two rigid-body colliders interact iff the
\* documented partition says so: terrain with the player and with every
\* particle, the player and the Immune particles with terrain and with each
\* other, a Vulnerable particle with terrain only.
C23_BodyPartition ==
    \A c1, c2 \in BodyColliders :
        c1 # c2 => (Interacts(c1, c2) <=> Documented(c1, c2))

\* C23 (case): a level holds the player, an Immune particle and a Vulnerable
\* particle.
C23_Witness_AllClasses ==
    \E c1, c2, c3 \in BodyColliders :
        /\ c1.kind = "player"
        /\ c2.kind = "particle" /\ Immune(c2.owner)
        /\ c3.kind = "particle" /\ Vulnerable(c3.owner)
        /\ c1.owner[1] = c2.owner[1] /\ c2.owner[1] = c3.owner[1]

\* C24: the sensors of any two particles interact, the player's sensor
\* interacts with every particle's sensor, and no sensor interacts with a
\* terrain collider that is not a killer.
C24_SensorsReport ==
    /\ \A s1, s2 \in Sensors : s1 # s2 => Interacts(s1, s2)
    /\ \A s1 \in Sensors : \A c \in BodyColliders :
          c.kind = "terrain" => ~Interacts(s1, c)

\* C24 (case): a level holds the player and two Vulnerable particles, one
\* of them born of a split and past its invincibility.
C24_Witness_TwoVulnerable ==
    \E s1, s2, s3 \in Sensors :
        /\ s1.kind = "player"
        /\ s2.kind = "particle" /\ Vulnerable(s2.owner) /\ s2.owner[2] \in SplitBorn
        /\ s3.kind = "particle" /\ Vulnerable(s3.owner)
        /\ s2 # s3
        /\ s1.owner[1] = s2.owner[1] /\ s2.owner[1] = s3.owner[1]
\* The instance the last restart spawned, while it lives.
Restarted == restartHist.g # 0 /\ restartHist.g \in DOMAIN levels

\* The restarted instance holds exactly its root particles, and the tick has
\* ended with no ParticleSpawned or ParticleDespawned left unread.
RestartSettled ==
    /\ pc = "frame"
    /\ Unread(spawnedEv) = 0 /\ Unread(despawnedEv) = 0
    /\ restartHist.data.roots # <<>>
    /\ Owned(restartHist.g) = {<<restartHist.g, n>> : n \in Range(restartHist.data.roots)}

\* C25: the instance a restart spawns has the Level Data and the Level tag
\* of the instance it replaces, and once its root particles are counted it is
\* Playing with a count equal to the number of its roots.
C25_RestartRespawns ==
    Restarted =>
        /\ levels[restartHist.g].data = restartHist.data
        /\ levels[restartHist.g].tag = restartHist.tag
        /\ RestartSettled =>
              /\ levels[restartHist.g].state = "Playing"
              /\ levels[restartHist.g].count = Len(restartHist.data.roots)

\* ------------------------------------------------- the time-scale handlers
\* The two handlers of time_scale.rs on their own: any system may write
\* SetTimeScale and SetTimeScaleOverride events, of any kind, and each handler
\* reads all the events it finds.  pc is the handler that ran last.
TimeScaleKinds == {"Normal", "Slowed"}
Overrides == {"None"} \cup TimeScaleKinds

HandlersOnly ==
    UNCHANGED << todo, delta, space, restartsLeft, contactsLeft, scope,
                 clicksLeft, mouse, rightHeld >>

SendSetTimeScale ==
    \E kind \in TimeScaleKinds :
        /\ Len(setScaleEv) < MaxEvents
        /\ SetWorld(WriteSetTimeScale(World, kind))
        /\ pc' = pc
        /\ HandlersOnly

SendSetTimeScaleOverride ==
    \E ov \in Overrides :
        /\ Len(setOverrideEv) < MaxEvents
        /\ SetWorld(WriteSetTimeScaleOverride(World, ov))
        /\ pc' = pc
        /\ HandlersOnly

HandleSetTimeScale ==
    /\ SetWorld(set_time_scale(World, FALSE))
    /\ pc' = "set_scale"
    /\ HandlersOnly

HandleSetTimeScaleOverride ==
    /\ SetWorld(set_time_scale_override(World, FALSE))
    /\ pc' = "set_override"
    /\ HandlersOnly

TimeScaleNext ==
    \/ SendSetTimeScale
    \/ SendSetTimeScaleOverride
    \/ HandleSetTimeScale
    \/ HandleSetTimeScaleOverride

InitTimeScale == InitFrom({EmptyWorld(FALSE)}, InputBudget)
SpecTimeScale == InitTimeScale /\ [][TimeScaleNext]_vars

\* The scale the two resources call for: the override when there is one.
Observed == IF timeOverride # "None" THEN Value(timeOverride) ELSE Value(timeScale)

\* set_time_scale reads events while an override is in place.
AutomaticSetUnderOverride ==
    /\ pc' = "set_scale" /\ setScaleEv # <<>> /\ setScaleEv' = <<>>
    /\ timeOverride # "None"

\* set_time_scale_override reads events, the last of which clears the override.
OverrideCleared ==
    /\ pc' = "set_override" /\ setOverrideEv # <<>> /\ setOverrideEv' = <<>>
    /\ setOverrideEv[Len(setOverrideEv)].v = "None"

\* C26: with the override at Some(X), a run of set_time_scale that reads
\* SetTimeScale(Y) stores Y, keeps the override and leaves the physics time
\* scale at the value of X; a run of set_time_scale_override whose last event
\* clears the override leaves the physics time scale at the value of the
\* stored automatic kind; and the physics time scale is always the one the two
\* resources call for.
C26_OverridePrecedence ==
    /\ [](physScale = Observed)
    /\ [][(AutomaticSetUnderOverride =>
              /\ timeScale' = setScaleEv[Len(setScaleEv)].v
              /\ timeOverride' = timeOverride
              /\ physScale' = Value(timeOverride))
          /\ (OverrideCleared =>
              /\ timeOverride' = "None"
              /\ timeScale' = timeScale
              /\ physScale' = Value(timeScale))]_vars

\* set_time_scale has just run under an override of another value than the
\* automatic kind it stored, and the clearing of the override is pending.
C26_Witness_StoredUnderOverride ==
    /\ pc = "set_scale"
    /\ timeOverride = "Normal" /\ timeScale = "Slowed"
    /\ physScale = "normal"
    /\ setOverrideEv # <<>> /\ setOverrideEv[Len(setOverrideEv)].v = "None"

\* Every split event written in this tick, which split_particle reads later
\* in the tick, stems from a contact the collision handlers of this tick
\* classified.
ClassifiedBeforeSplit ==
    \A k \in DOMAIN splitQ :
        splitQ[k].age = 0 =>
            \E i \in DOMAIN classLog : classLog[i].ev.id = splitQ[k].src.id

\* The particle count of every level is the number of its live instances.
CountSettled == \A g \in DOMAIN levels : levels[g].count = Cardinality(Owned(g))

\* C27: every split event split_particle finds written in its tick stems from
\* a contact classified earlier in that tick, and at the end of a tick in which
\* split_particle decomposed a particle the particle counts account for the
\* decompositions: each level's count is the number of its live instances.
C27_SplitsCountedInTick ==
    /\ ClassifiedBeforeSplit
    /\ (pc = "frame" /\ Decomposed # {} /\ ~crashed) => CountSettled

\* ------------------------------------------- the level text, there and back
\* The editor holds a level; Print copies its text; the text, saved as a
\* level file, is loaded as an asset.
HandleEditorEventPrint ==
    /\ SetWorld(handle_editor_event_print(World))
    /\ pc' = pc
    /\ HandlersOnly

LoadLevelData ==
    /\ editor.clipboard # <<>>
    /\ SetWorld(load(World, editor.clipboard))
    /\ pc' = pc
    /\ HandlersOnly

RoundTripNext == HandleEditorEventPrint \/ LoadLevelData

InitRoundTrip ==
    InitFrom({[EmptyWorld(TRUE) EXCEPT !.screen = "Editor", !.editor.level = l] :
                 l \in LevelDataModels},
             InputBudget)
SpecRoundTrip == InitRoundTrip /\ [][RoundTripNext]_vars

HandleLists(n) ==
    LET H == LevelPaths IN
    {<<>>} \cup {<<a>> : a \in H}
    \cup (IF n < 2 THEN {} ELSE {p \in H \X H : p[1] # p[2]})
    \cup (IF n < 3 THEN {}
          ELSE {t \in H \X H \X H : t[1] # t[2] /\ t[1] # t[3] /\ t[2] # t[3]})

LevelNames ==
    {[kind |-> "Default", id |-> i, name |-> <<>>] : i \in 0..2}
    \cup {[kind |-> "Custom", id |-> 0, name |-> LevelFiles[h]] : h \in DOMAIN LevelFiles}

LoadLevel ==
    \E h \in AllOf(World) \ (loading.levels \cup loading.errors) :
        /\ ~crashed
        /\ SetWorld(load_level(World, h))
        /\ pc' = pc
        /\ HandlersOnly

InitializeLevelAssets ==
    /\ loading.event /\ ~crashed
    /\ SetWorld(initialize_level_assets(World))
    /\ pc' = pc
    /\ HandlersOnly

SpawnLevelLookup ==
    \E level \in LevelNames :
        /\ loading.assets # <<>> /\ ~crashed
        /\ SetWorld(level_handle(World, level))
        /\ pc' = pc
        /\ HandlersOnly

LoadingNext == LoadLevel \/ InitializeLevelAssets \/ SpawnLevelLookup

InitLoading ==
    InitFrom({[EmptyWorld(FALSE) EXCEPT !.screen = "Loading",
                                        !.loading = Loaded(d, c)] :
                 d \in HandleLists(3), c \in HandleLists(1)},
             InputBudget)
SpecLoading == InitLoading /\ [][LoadingNext]_vars

Initialized == loading.assets # <<>>

\* C29: once LevelAssets is inserted, its custom table holds every custom
\* handle of LevelHandles under the name of its level.
C29_CustomIndexedByName ==
    Initialized =>
        \A i \in DOMAIN loading.given.custom :
            \E e \in loading.assets[1].custom :
                /\ e.name = LevelFiles[loading.given.custom[i]]
                /\ e.handle = loading.given.custom[i]

NameNumber(h) == parse(LevelFiles[h])

\* C30: once LevelAssets is inserted, its default list holds the default
\* handles of LevelHandles, each as often as given, in ascending order of
\* the number their level's name parses to; SpawnLevel(Level::Default(i))
\* finds the handle at index i, and the handle at index i + 1 is of a number
\* not below it.
C30_DefaultSortedByNumber ==
    Initialized =>
        LET d == loading.assets[1].default IN
        /\ Len(d) = Len(loading.given.default)
        /\ \A h \in DOMAIN LevelFiles :
              Cardinality({i \in DOMAIN d : d[i] = h})
                  = Cardinality({i \in DOMAIN loading.given.default :
                                    loading.given.default[i] = h})
        /\ \A i, j \in DOMAIN d : i < j => NameNumber(d[i]) <= NameNumber(d[j])
        /\ \A k \in DOMAIN loading.found :
              loading.found[k].level.kind = "Default" =>
                  loading.found[k].handle = d[loading.found[k].level.id + 1]

\* Three default levels given out of order, the names "10" and "2" among
\* them, and the second of the sorted list has been looked up.
C30_Witness_Reordered ==
    /\ Initialized
    /\ loading.given.default = <<3, 4, 1>>
    /\ loading.found # <<>>
    /\ loading.found[1].level = [kind |-> "Default", id |-> 1, name |-> <<>>]
    /\ loading.found[1].handle = 4

\* A particle that holds a subparticle of velocity (0, 0), at any depth.
RECURSIVE ZeroChildVelocity(_)
ZeroChildVelocity(p) ==
    \E i \in DOMAIN p.subparticles :
        \/ p.subparticles[i].initial_velocity = <<0, 0>>
        \/ ZeroChildVelocity(p.subparticles[i])

\* C31: LevelAssets is not inserted when a default level has a name that is
\* no number, however many default levels there are.
C31_BadNameIsFatal ==
    Initialized =>
        \A i \in DOMAIN loading.given.default :
            IsNumber(LevelFiles[loading.given.default[i]])

\* C31 (second case): no asset is loaded from a level text in which a
\* particle holds a subparticle of zero velocity.
C31_ZeroVelocityIsFatal ==
    \A k \in DOMAIN editor.loaded :
        \A i \in DOMAIN editor.loaded[k].particles :
            ~ZeroChildVelocity(editor.loaded[k].particles[i].particle)

\* Every level file has been read and no asset event is left to handle.
LoadingSettled ==
    /\ AllOf(World) \subseteq loading.levels \cup loading.errors
    /\ ~loading.event /\ ~crashed

FindRigidbodyAncestor ==
    /\ hierarchy.result = <<>>
    /\ SetWorld(find_rigidbody_ancestor(World))
    /\ pc' = pc
    /\ HandlersOnly

AncestorNext == FindRigidbodyAncestor

InitAncestor ==
    InitFrom({[EmptyWorld(FALSE) EXCEPT !.hierarchy = h] : h \in Hierarchies},
             InputBudget)
SpecAncestor == InitAncestor /\ [][AncestorNext]_vars

\* The nearest entity with a rigid body from e upwards, e included; 0 when
\* there is none.
Nearest(h) ==
    LET c == Chain(h.child_of, h.start, MaxEntities)
        with == {i \in DOMAIN c : c[i] \in h.rigid_body}
    IN  IF with = {} THEN 0
        ELSE c[CHOOSE i \in with : \A j \in with : i <= j]

\* C33: the loop takes no more turns than there are entities, and its
\* result is the nearest entity with a rigid body on the chain of parents
\* from the given entity, the entity included, or None when there is none.
C33_NearestRigidBody ==
    /\ hierarchy.turns <= MaxEntities
    /\ hierarchy.result # <<>> => hierarchy.result = <<Nearest(hierarchy)>>

\* C34: whenever a level system of Update is about to run in the Gameplay
\* screen, there is exactly one level instance.
C34_ExactlyOneLevel ==
    (pc = "update" /\ screen = "Gameplay" /\ ~crashed /\ todo \cap LevelSystems # {})
        => Cardinality(LevelEntities(World)) = 1

\* C35: a level instance that owns a live particle is Playing and has
\* started no completion delay, be it fresh, restarted, or down to the
\* children of its last composite.
C35_NoDelayWhileParticlesLive ==
    \A g \in DOMAIN levels :
        Owned(g) # {} => (levels[g].state = "Playing" /\ TimersStarted(g) = 0)

\* C36: split_particle handles the split event of a Vulnerable particle
\* whether or not there is a player: no event of a run ends at the lookup
\* of the player.
C36_SplitNeedsNoPlayer ==
    \A i \in DOMAIN hist.log :
        (PlayerEntities(World) = {} /\ hist.log[i].p \notin hist.log[i].src.immune)
            => hist.log[i].outcome # "noplayer"

\* C37: at the end of every tick in Gameplay the physics time scale is the
\* override's value when there is an override, and the automatic value
\* otherwise.
C37_PhysicsFollowsResources ==
    (pc = "frame" /\ screen = "Gameplay" /\ ~crashed) => physScale = Observed

\* ----------------------------------------------------------- launch control
\* Sessions with stretch inputs, the right mouse button and restarts.
LaunchBudget == [restarts |-> MaxRestarts, contacts |-> MaxContacts,
                 batch |-> MaxContacts, clicks |-> MaxClicks,
                 bothOrders |-> FALSE, stopped |-> FALSE, launch |-> TRUE]
LaunchNext == Next \/ HandleDragInput
InitLaunch == InitFrom(EntryWorlds, LaunchBudget)
SpecLaunch == InitLaunch /\ [][LaunchNext]_vars

\* The step launches the player of level instance g.
Launched(g) == levels'[g].launches > levels[g].launches

\* The step hands can_move back to the player of level instance g.
Released(g) == ~levels[g].can_move /\ levels'[g].can_move

\* The step applies the commands of a contact of the player with a
\* Vulnerable particle, or spawns a level.
VulnerableContactApplied ==
    \E i \in DOMAIN cmds :
        \/ /\ cmds[i].op = "triggerPlayerParticle"
           /\ cmds[i].a \in DOMAIN particles
           /\ particles[cmds[i].a].inv = NoTimer
        \/ cmds[i].op \in {"spawnLevel", "spawnRawLevel"}

\* C38: a launch happens only while can_move holds, clears it, and happens
\* only in a level instance whose count has not reached 0 (it is Playing);
\* can_move comes back only through the contact of the player with a
\* Vulnerable particle or with a fresh level.
C38_LaunchAlternates ==
    [][\A g \in DOMAIN levels \cap DOMAIN levels' :
          /\ Launched(g) =>
                /\ levels[g].can_move /\ ~levels'[g].can_move
                /\ levels[g].state = "Playing"
          /\ Released(g) => VulnerableContactApplied]_vars

\* --------------------------------------------------- marker and body groups
\* The instance carries Invincible and is in GROUP_2 with filter
\* GROUP_1 | GROUP_2, or carries none and is in GROUP_3 with filter GROUP_1.
MarkerMatchesGroups(id) ==
    \/ particles[id].inv # NoTimer
          /\ particles[id].groups = CollisionGroups({2}, {1, 2})
    \/ particles[id].inv = NoTimer
          /\ particles[id].groups = CollisionGroups({3}, {1})

\* No step hands Invincible to an instance that is without it.
StaysVulnerable ==
    \A id \in DOMAIN particles \cap DOMAIN particles' :
        particles[id].inv = NoTimer => particles'[id].inv = NoTimer

\* C39: in every reachable state every particle instance carries Invincible
\* iff its body is in the immune groups and is in the vulnerable groups
\* otherwise, and an instance without Invincible never gets it.
C39_MarkerIffImmuneGroups ==
    /\ [](\A id \in DOMAIN particles : MarkerMatchesGroups(id))
    /\ [][StaysVulnerable]_vars

\* C39 (case): an instance born Immune of a split has lost Invincible, is in
\* the vulnerable groups, and a later tick has ended with it still so.
C39_Witness_PastInvincibility ==
    \E a \in DOMAIN particles :
        /\ a[2] \in SplitBorn
        /\ particles[a].inv = NoTimer
        /\ particles[a].groups = CollisionGroups({3}, {1})
        /\ pc = "frame" /\ removedEv = <<>>

\* ------------------------------------------------------- the level editor
MaxPlaced == 2
MaxSubparticles == 2
ClickPositions == {<<-1000, 0>>}

\* Vec::remove(i), i counted from 0.
RemoveAt(s, i) == SubSeq(s, 1, i) \o SubSeq(s, i + 2, Len(s))

\* Particle::default().
DefaultParticle == CHOOSE t \in ParticleTrees(0) : t.kind = "Normal"
ParticleData_default_at(position) == ParticleDataAt(position, DefaultParticle)
ObstacleData_default_at(position) ==
    Rectangle(<<position[1], position[2], 0>>, White, 250, 250, FALSE)

\* spawn_level_preview: the previews are despawned, and one is spawned for
\* the player, for each obstacle and for each particle of the level.
spawn_level_preview(W) ==
    [W EXCEPT !.editor.preview =
        [particles |-> Len(W.editor.level.particles),
         obstacles |-> Len(W.editor.level.obstacles)]]

refresh_level_preview(W) == spawn_level_preview(W)

PreviewEntities(W) ==
    {PlayerIndex}
    \cup {ParticleIndex(i) : i \in 0..(W.editor.preview.particles - 1)}
    \cup {ObstacleIndex(i) : i \in 0..(W.editor.preview.obstacles - 1)}

\* select: Pointer<Pressed> on a preview entity.
select(W, target) == [W EXCEPT !.editor.selected = <<target>>]

handle_editor_event_clear(W) ==
    LET V == [W EXCEPT !.editor.events = <<>>]
    IN  IF "Clear" \in Range(W.editor.events)
        THEN spawn_level_preview([V EXCEPT !.editor.level = DefaultLevelData])
        ELSE V

object_placement(W, click) ==
    IF W.editor.mode # "Place" THEN W
    ELSE IF click.button # "Left" THEN W               \* just_pressed(Left)
    ELSE IF click.on # "world" THEN W                 \* is_pointer_over_area
    ELSE IF W.editor.placement = "Particle"
    THEN [W EXCEPT !.editor.level.particles =
             Append(@, ParticleData_default_at(click.at))]
    ELSE [W EXCEPT !.editor.level.obstacles =
             Append(@, ObstacleData_default_at(click.at))]

\* The click as the particle_ui of subparticle i sees it.
Below(click, i) ==
    IF click.path # <<>> /\ Head(click.path) = i
    THEN [click EXCEPT !.path = Tail(click.path)]
    ELSE NoClick

\* The value the loop of particle_ui leaves in `deleted`: each turn assigns
\* it, so it is what the last turn returned.
LastOf(results) ==
    IF results = <<>> THEN <<>> ELSE results[Len(results)].to_delete

\* particle_ui: the widgets of one particle and, inside it, of its
\* subparticles.  Returns the particle as edited and to_delete.
RECURSIVE particle_ui(_, _, _)
particle_ui(id, particle, click) ==
    LET here == click.path = <<>>
        to_delete == IF here /\ click.on = "Delete" THEN <<id>> ELSE <<>>
        is_killer == (particle.kind = "Killer") # (here /\ click.on = "IsKiller")
        results == [i \in DOMAIN particle.subparticles |->
                       particle_ui(i - 1, particle.subparticles[i],
                                   Below(click, i - 1))]
        edited == [i \in DOMAIN results |-> results[i].particle]
        deleted == LastOf(results)
        kept == IF deleted # <<>> THEN RemoveAt(edited, deleted[1]) ELSE edited
        subs == IF here /\ click.on = "Add"
                THEN Append(kept, DefaultParticle) ELSE kept
    IN  [particle |-> [particle EXCEPT
                          !.kind = IF is_killer THEN "Killer" ELSE "Normal",
                          !.subparticles = subs],
         to_delete |-> to_delete]

\* The Select arm of editor_ui on PreviewIndex::Particle(index).
SelectedParticle(W, index, click) ==
    LET list == W.editor.level.particles
        V == [W EXCEPT !.editor.pass.lookup =
                  <<[kind |-> "Particle", index |-> index, len |-> Len(list)]>>]
    IN  IF index >= Len(list) THEN Panic(V, "editor_ui")   \* get_mut().unwrap()
        ELSE LET r == particle_ui(index, list[index + 1].particle, click)
             IN  IF r.to_delete # <<>>
                 THEN [V EXCEPT !.editor.level.particles = RemoveAt(list, index),
                                !.editor.selected = <<>>]
                 ELSE [V EXCEPT !.editor.level.particles[index + 1].particle =
                                    r.particle]

\* The Select arm of editor_ui on PreviewIndex::Obstacle(index).
SelectedObstacle(W, index, click) ==
    LET list == W.editor.level.obstacles
        V == [W EXCEPT !.editor.pass.lookup =
                  <<[kind |-> "Obstacle", index |-> index, len |-> Len(list)]>>]
    IN  IF index >= Len(list) THEN Panic(V, "editor_ui")  \* remove, unwrap
        ELSE IF click.on = "Delete"
        THEN [V EXCEPT !.editor.level.obstacles = RemoveAt(list, index),
                       !.editor.selected = <<>>]
        ELSE IF click.on = "IsKiller"
        THEN [V EXCEPT !.editor.level.obstacles[index + 1].is_killer = ~@]
        ELSE V

\* editor_ui: the Clear button, the mode, then the arm of the mode.
editor_ui(W, click) ==
    LET A == [W EXCEPT !.editor.pass = [click |-> click, lookup |-> <<>>],
              !.editor.events =
                  IF click.on = "Clear" THEN Append(@, "Clear") ELSE @,
              !.editor.mode =
                  IF click.on \in {"Place", "Select"} THEN click.on ELSE @]
    IN  IF A.editor.mode = "Place"
        THEN [A EXCEPT !.editor.selected = <<>>,
                       !.editor.placement =
                           IF click.on \in {"Particle", "Obstacle"}
                           THEN click.on ELSE @]
        ELSE IF A.editor.selected = <<>> THEN A
        ELSE LET s == A.editor.selected[1]
             IN  CASE s.kind = "Player" -> A
                   [] s.kind = "Particle" -> SelectedParticle(A, s.index, click)
                   [] s.kind = "Obstacle" -> SelectedObstacle(A, s.index, click)

\* (editor_ui, refresh_level_preview).chain()
editor_pass(W, click) ==
    LET V == editor_ui(W, click)
    IN  IF V.panic # "none" THEN V ELSE refresh_level_preview(V)

\* The paths to the particles below p that the window shows.
RECURSIVE Paths(_, _)
Paths(p, d) ==
    {<<>>} \cup
    (IF d = 0 THEN {}
     ELSE UNION {{<<i - 1>> \o q : q \in Paths(p.subparticles[i], d - 1)} :
                    i \in DOMAIN p.subparticles})

RECURSIVE ParticleAt(_, _)
ParticleAt(p, path) ==
    IF path = <<>> THEN p ELSE ParticleAt(p.subparticles[Head(path) + 1], Tail(path))

\* The widgets the window offers to a click.
WindowClicks(W) ==
    LET e == W.editor
        s == IF e.selected = <<>> THEN PlayerIndex ELSE e.selected[1]
        shown == e.mode = "Select" /\ e.selected # <<>>
        particle == IF shown /\ s.kind = "Particle"
                       /\ s.index < Len(e.level.particles)
                    THEN <<e.level.particles[s.index + 1].particle>> ELSE <<>>
        paths == IF particle = <<>> THEN {} ELSE Paths(particle[1], MaxDepth)
    IN  {[NoClick EXCEPT !.on = b] : b \in {"Clear", "Place", "Select"}}
        \cup {[NoClick EXCEPT !.on = b] :
                 b \in IF e.mode = "Place" THEN {"Particle", "Obstacle"} ELSE {}}
        \cup {[NoClick EXCEPT !.on = "Delete"] :
                 b \in IF shown /\ s.kind = "Obstacle" THEN {1} ELSE {}}
        \cup {[NoClick EXCEPT !.on = b, !.path = q] :
                 b \in {"Delete", "IsKiller"}, q \in paths}
        \cup {[NoClick EXCEPT !.on = "Add", !.path = q] :
                 q \in {r \in paths :
                          /\ Len(r) < MaxDepth
                          /\ Len(ParticleAt(particle[1], r).subparticles)
                                < MaxSubparticles}}

\* The presses the level view offers: on a preview entity or on none.
WorldPresses(W) ==
    {[NoClick EXCEPT !.on = "world", !.at = a, !.target = t, !.button = b] :
        a \in ClickPositions, b \in {"Left", "Right"},
        t \in {<<>>} \cup {<<x>> : x \in PreviewEntities(W)}}

EditorUpdateSystems == {"handle_editor_event_clear", "object_placement"}

EditorStep(W) ==
    /\ screen = "Editor" /\ ~crashed
    /\ SetWorld(W)
    /\ pc' = pc
    /\ HandlersOnly

\* PreUpdate: editor_pointer_picking hands the pointer's input of the frame
\* to the picking backend, which triggers Pointer<Pressed> on the entity
\* under a press.
EditorPointerPicking ==
    /\ editor.schedule = "PreUpdate"
    /\ \E p \in {NoClick, [NoClick EXCEPT !.on = "window"]}
                 \cup WorldPresses(World) :
          /\ (p.on = "world" /\ p.button = "Left" /\ editor.mode = "Place") =>
                IF editor.placement = "Particle"
                THEN Len(editor.level.particles) < MaxPlaced
                ELSE Len(editor.level.obstacles) < MaxPlaced
          /\ EditorStep([(IF p.target = <<>> THEN World
                          ELSE select(World, p.target[1]))
                            EXCEPT !.editor.pointer = p,
                                   !.editor.schedule = "Update",
                                   !.editor.todo = EditorUpdateSystems])

EditorUpdate(system, W) ==
    /\ editor.schedule = "Update"
    /\ system \in editor.todo
    /\ EditorStep([W EXCEPT !.editor.todo = @ \ {system},
                            !.editor.schedule =
                                IF editor.todo = {system}
                                THEN "EguiContextPass" ELSE @])

HandleEditorEventClear ==
    EditorUpdate("handle_editor_event_clear", handle_editor_event_clear(World))

ObjectPlacement ==
    EditorUpdate("object_placement", object_placement(World, editor.pointer))

\* EguiContextPass: a pointer over the window clicks one of its widgets.
EditorPass ==
    /\ editor.schedule = "EguiContextPass"
    /\ \E click \in IF editor.pointer.on = "window"
                     THEN WindowClicks(World) ELSE {NoClick} :
          EditorStep([editor_pass(World, click)
                        EXCEPT !.editor.schedule = "PreUpdate",
                               !.editor.pointer = NoClick])

EditorNext ==
    EditorPointerPicking \/ HandleEditorEventClear \/ ObjectPlacement
        \/ EditorPass

InitEditor ==
    InitFrom({[EmptyWorld(TRUE) EXCEPT !.screen = "Editor"]}, InputBudget)
SpecEditor == InitEditor /\ [][EditorNext]_vars

\* The index editor_ui looked up was an index of the list.
SelectedInRange ==
    \A i \in DOMAIN editor.pass.lookup :
        editor.pass.lookup[i].index < editor.pass.lookup[i].len

\* The step is an editor_ui that saw Delete clicked on subparticle i of the
\* selected particle.
DeleteClicked ==
    /\ editor.schedule = "EguiContextPass" /\ editor'.schedule = "PreUpdate"
    /\ editor'.pass.click.on = "Delete" /\ Len(editor'.pass.click.path) = 1
    /\ panic' = "none"

\* The selected particle has after the step the subparticles it had, without
\* the one clicked.
DeletesThatSubparticle ==
    LET k == editor.selected[1].index + 1
    IN  DeleteClicked =>
            editor'.level.particles[k].particle.subparticles
              = RemoveAt(editor.level.particles[k].particle.subparticles,
                         editor'.pass.click.path[1])

\* C40: whenever editor_ui looks up the selected PreviewIndex, the index is
\* below the length of the list it is looked up in, and a Delete click on
\* subparticle i of the selected particle removes that subparticle and no
\* other.
C40_SelectionRefersToElement ==
    /\ []SelectedInRange
    /\ [][DeletesThatSubparticle]_vars
====
